---- MODULE Spec2Model ----
(***************************************************************************)
(* MutationDiff (src/enhanced_inputevents/mutation_diff.js): a tracker     *)
(* that ingests attribute and child-list mutation records of a DOM tree    *)
(* and keeps the delta between the tree at tracking start and the live     *)
(* tree.  The live DOM, the MutationObserver that turns DOM operations     *)
(* into records, and the tracker (PropertyCache, TreeMutations,            *)
(* SiblingIndex, SiblingPromise, MutatedRange) are modelled.               *)
(*                                                                         *)
(* Encoding of JavaScript values as integers:                              *)
(*   a Node is its number (Root = 0, the others 1..NumNodes),              *)
(*   null is NULL, undefined is UNDEF, a SiblingPromise created for the    *)
(*   record of node o in direction d is Prom(o, d), an absent Map entry    *)
(*   or an absent position object is NONE.                                 *)
(***************************************************************************)
EXTENDS Integers, Sequences, FiniteSets, TLC

\* ------------------------------------------------------------------ bounds
NumNodes == 3
MaxAdded == 2
NumVals == 2

Root == 0
Nodes == 0..NumNodes
Kids == 1..NumNodes
\* attribute values: 0 is null (the attribute is absent)
Vals == 0..(NumVals - 1)

NULL == 0 - 1
UNDEF == 0 - 2
NONE == 0 - 3
\* the pointer of a promise whose pointer record has left the floating map
STALE == 0 - 4

IsNode(x) == x >= 0
Prom(o, d) == 0 - 10 - 2 * o - (IF d = "next" THEN 1 ELSE 0)
IsProm(x) == x <= 0 - 10
PromOrigin(x) == (0 - 10 - x) \div 2
PromDir(x) == IF (0 - 10 - x) % 2 = 1 THEN "next" ELSE "prev"
Opp(d) == IF d = "prev" THEN "next" ELSE "prev"

\* ------------------------------------------------------------ sequences
SeqToSet(s) == {s[i] : i \in 1..Len(s)}
IndexOf(s, x) == CHOOSE i \in 1..Len(s) : s[i] = x
Without(s, x) == SelectSeq(s, LAMBDA y : y # x)
InsertAt(s, i, ins) == SubSeq(s, 1, i - 1) \o ins \o SubSeq(s, i, Len(s))
\* the sequences without repetition over S of length 0..k
RECURSIVE InjSeqs(_, _)
InjSeqs(S, k) ==
    IF k = 0 THEN {<<>>}
    ELSE {<<>>} \cup UNION {{<<x>> \o s : s \in InjSeqs(S \ {x}, k - 1)} : x \in S}

\* ------------------------------------------------------------- live DOM
\* ch is the childNodes of every node: [Nodes -> Seq(Nodes)]
ParentOf(ch, n) ==
    IF \E p \in Nodes : n \in SeqToSet(ch[p])
    THEN CHOOSE p \in Nodes : n \in SeqToSet(ch[p])
    ELSE NULL
PrevSib(ch, n) ==
    LET p == ParentOf(ch, n) IN
    IF p = NULL THEN NULL
    ELSE LET i == IndexOf(ch[p], n) IN IF i = 1 THEN NULL ELSE ch[p][i - 1]
NextSib(ch, n) ==
    LET p == ParentOf(ch, n) IN
    IF p = NULL THEN NULL
    ELSE LET i == IndexOf(ch[p], n) IN IF i = Len(ch[p]) THEN NULL ELSE ch[p][i + 1]
FirstChild(ch, n) == IF Len(ch[n]) = 0 THEN NULL ELSE ch[n][1]
LastChild(ch, n) == IF Len(ch[n]) = 0 THEN NULL ELSE ch[n][Len(ch[n])]
\* a.contains(b): b is a or a descendant of a
RECURSIVE Contains(_, _, _)
Contains(ch, a, b) ==
    IF b = NULL THEN FALSE
    ELSE IF a = b THEN TRUE
    ELSE Contains(ch, a, ParentOf(ch, b))
Detach(ch, n) == [p \in Nodes |-> Without(ch[p], n)]
\* the nodes of the subtree of n
RECURSIVE Subtree(_, _)
Subtree(ch, n) == {n} \cup UNION {Subtree(ch, ch[n][i]) : i \in 1..Len(ch[n])}

\* ------------------------------------------------- MutatedNode records
\* a position {parent, prev, next}; NoPos is the absent position (null)
NoPos == [parent |-> NONE, prev |-> UNDEF, next |-> UNDEF]
HasPos(pos) == pos.parent # NONE
\* the object literal {parent}
NewPos(parent) == [parent |-> parent, prev |-> UNDEF, next |-> UNDEF]
MutatedNode == [in |-> TRUE, o |-> NoPos, m |-> NoPos]
NoRec == [in |-> FALSE, o |-> NoPos, m |-> NoPos]
GetPos(r, mode) == IF mode = "original" THEN r.o ELSE r.m
SetPos(r, mode, pos) == IF mode = "original" THEN [r EXCEPT !.o = pos] ELSE [r EXCEPT !.m = pos]
Slot(pos, side) == IF side = "prev" THEN pos.prev ELSE pos.next
SetSlot(pos, side, v) ==
    IF side = "prev" THEN [pos EXCEPT !.prev = v] ELSE [pos EXCEPT !.next = v]

PromIds == {Prom(o, d) : o \in Nodes, d \in {"prev", "next"}}
EmptyIdx == [k \in Nodes |-> NONE]

\* The state of a TreeMutations: the floating Map (fl, with its insertion
\* order ord), the four Maps of the two SiblingIndex objects, the ptr field of
\* every SiblingPromise, and err, the exception a method ended with.  met
\* is history: a resume() walk has read a mutated slot that held a promise.
TreeMutations ==
    [fl |-> [n \in Nodes |-> NoRec], ord |-> <<>>,
     oprev |-> EmptyIdx, onext |-> EmptyIdx,
     mprev |-> EmptyIdx, mnext |-> EmptyIdx,
     ptr |-> [p \in PromIds |-> UNDEF], err |-> "none", met |-> FALSE]

Has(t, n) == IsNode(n) /\ t.fl[n].in
\* this.floating.get(x): the record's node, NONE for undefined
FloatingGet(t, x) == IF Has(t, x) THEN x ELSE NONE
FloatingSet(t, n, r) ==
    [t EXCEPT !.fl[n] = r, !.ord = IF t.fl[n].in THEN @ ELSE Append(@, n)]
Throw(t, e) == IF t.err = "none" THEN [t EXCEPT !.err = e] ELSE t
Ok(t) == t.err = "none"

\* ------------------------------------------------------- SiblingIndex
IdxMap(t, mode, side) ==
    IF mode = "original"
    THEN (IF side = "prev" THEN t.oprev ELSE t.onext)
    ELSE (IF side = "prev" THEN t.mprev ELSE t.mnext)
SetIdxMap(t, mode, side, f) ==
    IF mode = "original"
    THEN (IF side = "prev" THEN [t EXCEPT !.oprev = f] ELSE [t EXCEPT !.onext = f])
    ELSE (IF side = "prev" THEN [t EXCEPT !.mprev = f] ELSE [t EXCEPT !.mnext = f])
\* SiblingIndex.#index
Index(sibling) == IsNode(sibling)
IdxGet(t, mode, side, k) == IF IsNode(k) THEN IdxMap(t, mode, side)[k] ELSE NONE
IdxDelete(t, mode, side, k) ==
    IF Index(k) THEN SetIdxMap(t, mode, side, [IdxMap(t, mode, side) EXCEPT ![k] = NONE]) ELSE t
IdxSet(t, mode, side, k, n) ==
    IF Index(k) THEN SetIdxMap(t, mode, side, [IdxMap(t, mode, side) EXCEPT ![k] = n]) ELSE t
\* SiblingIndex.remove of a record whose node[this.mode] is pos
SiblingIndexRemove(t, mode, pos) ==
    IF ~HasPos(pos) THEN t
    ELSE IdxDelete(IdxDelete(t, mode, "prev", pos.prev), mode, "next", pos.next)
\* SiblingIndex.add of the record of node n, whose node[this.mode] is pos
SiblingIndexAdd(t, mode, n, pos) ==
    IF ~HasPos(pos) THEN t
    ELSE IdxSet(IdxSet(t, mode, "prev", pos.prev, n), mode, "next", pos.next, n)
\* SiblingIndex.update(node, sibling, side, parent) on the floating record of n
SiblingIndexUpdate(t, mode, n, sibling, side, parent) ==
    LET r == t.fl[n]
        op == IF HasPos(GetPos(r, mode)) THEN GetPos(r, mode) ELSE NewPos(parent)
        old == Slot(op, side)
    IN IF old = sibling
       THEN [t EXCEPT !.fl[n] = SetPos(r, mode, op)]
       ELSE IdxSet(IdxDelete([t EXCEPT !.fl[n] = SetPos(r, mode, SetSlot(op, side, sibling))],
                             mode, side, old),
                   mode, side, sibling, n)
\* SiblingIndex.clear, TreeMutations.clear
\* a clear() that leaves the tree as it is
TreeClearKept(t) == t
\* clear(): floating and both sibling indexes are emptied
TreeClear(t) == TreeMutations

\* ------------------------------------------------------ SiblingPromise
\* A promise is named by the record it was created for and its direction; pv
\* is live while that record is floating.  Using a promise whose record has
\* left the floating map is outside what this model represents: err becomes
\* "stale promise" and the behaviour ends there.
PromiseLive(t, pv) == IsProm(pv) /\ t.fl[PromOrigin(pv)].in
\* SiblingPromise.resolve
Resolve(t, pv, node) ==
    IF ~Ok(t) THEN t
    ELSE IF ~PromiseLive(t, pv) THEN Throw(t, "stale promise")
    ELSE SiblingIndexUpdate(t, "original", PromOrigin(pv), node, PromDir(pv), UNDEF)
\* SiblingPromise.resume(node): hint is [rec |-> TRUE, v |-> n] for the
\* MutatedNode of n and [rec |-> FALSE, v |-> x] for a Node, null or undefined.
\* The result is [t, done]; fuel bounds the walk (a cycle never ends it).
RECURSIVE ResumeWalk(_, _, _, _, _)
ResumeWalk(t, pv, smn, node, fuel) ==
    IF smn = NONE THEN [t |-> Resolve(t, pv, node), done |-> TRUE]
    ELSE IF fuel = 0 THEN [t |-> Throw(t, "endless walk"), done |-> FALSE]
    ELSE
      LET dir == PromDir(pv)
          r == t.fl[smn]
          m == IF HasPos(r.m) THEN r.m ELSE NewPos(t.fl[PromOrigin(pv)].o.parent)
          t1 == [t EXCEPT !.fl[smn].m = m]
          nxt == Slot(m, dir)
      IN IF nxt = UNDEF
         THEN [t |-> [t1 EXCEPT !.fl[smn].m = SetSlot(m, dir, pv), !.ptr[pv] = smn],
               done |-> FALSE]
         ELSE IF nxt = NULL THEN [t |-> Resolve(t1, pv, NULL), done |-> TRUE]
         ELSE IF IsProm(nxt)
         THEN \* floating.get(promise) is undefined: resolve(promise)
              [t |-> Resolve([t1 EXCEPT !.met = TRUE], pv, nxt), done |-> TRUE]
         ELSE ResumeWalk(t1, pv, FloatingGet(t1, nxt), nxt, fuel - 1)
\* a resume that finds nothing: the promise stays unresolved and unattached
ResumeUnresolved(t, pv, hint) == [t |-> t, done |-> FALSE]
Resume(t, pv, hint) ==
    IF ~Ok(t) THEN [t |-> t, done |-> FALSE]
    ELSE IF ~PromiseLive(t, pv) THEN [t |-> Throw(t, "stale promise"), done |-> FALSE]
    ELSE IF ~hint.rec /\ hint.v = NULL THEN [t |-> Resolve(t, pv, NULL), done |-> TRUE]
    ELSE ResumeWalk(t, pv, IF hint.rec THEN hint.v ELSE FloatingGet(t, hint.v),
                    hint.v, NumNodes + 2)
\* SiblingPromise.discard: delete this.ptr.mutated[this.dir]
Discard(t, pv) ==
    LET p == t.ptr[pv] IN
    IF ~Ok(t) \/ p = UNDEF \/ p = STALE THEN t
    ELSE IF ~HasPos(t.fl[p].m) THEN Throw(t, "TypeError")
    ELSE [t EXCEPT !.fl[p].m = SetSlot(@, PromDir(pv), UNDEF)]
\* An index entry whose record has left the floating map names Stale(n): the
\* object is no longer the record of n, only its .node can still be read.
Stale(n) == 0 - 100 - n
RecNode(v) == IF v <= 0 - 100 THEN 0 - 100 - v ELSE v
StaleIdx(f, n) == [k \in Nodes |-> IF f[k] = n THEN Stale(n) ELSE f[k]]
\* this.floating.delete(n), and what the deleted object leaves behind: index
\* entries that still hold it and promises whose ptr is it.
FloatingDelete(t, n) ==
    [t EXCEPT !.fl[n] = NoRec, !.ord = Without(@, n),
              !.oprev = StaleIdx(@, n), !.onext = StaleIdx(@, n),
              !.mprev = StaleIdx(@, n), !.mnext = StaleIdx(@, n),
              !.ptr = [p \in PromIds |-> IF t.ptr[p] = n THEN STALE ELSE t.ptr[p]]]

\* ------------------------------------------- TreeMutations.mutation
\* The locals of one mutation() call, threaded through its steps: t the
\* tracker, rp revert_possible, sk siblings_known, lf last_fixed, lp
\* last_promise (NULL: none), resolved the keys of the resolved Map in
\* insertion order (its flag values stay 0: mark_reverted and-assigns them),
\* fixed and cands the arrays fixed and candidates.
MutationLocals(t) ==
    [t |-> t, rp |-> FALSE, sk |-> FALSE, lf |-> UNDEF, lp |-> NULL,
     resolved |-> <<>>, fixed |-> <<>>, cands |-> <<>>]
MapAdd(keys, k) == IF k \in SeqToSet(keys) THEN keys ELSE Append(keys, k)
RecHint(n) == [rec |-> TRUE, v |-> n]
NodeHint(x) == [rec |-> FALSE, v |-> x]
\* prev_mn || prev
HintOf(mn, node) == IF mn # NONE THEN RecHint(mn) ELSE NodeHint(node)

\* handle_promises(node, handle_prev, handle_next); prevMn is prev_mn
HandlePromises(S, node, handlePrev, handleNext, prevMn) ==
    LET mn == FloatingGet(S.t, node)
        \* promise.resume(...) and, if it resolved, resolved.set(promise.origin)
        Resumed(S0, pv, res) ==
            [S0 EXCEPT !.t = res.t,
                       !.resolved = IF res.done THEN MapAdd(@, PromOrigin(pv)) ELSE @]
        \* if (handle_prev && mn.mutated)
        HandlePrev(m) ==
            IF ~(handlePrev /\ HasPos(m)) THEN S
            ELSE IF m.prev = UNDEF THEN [S EXCEPT !.sk = TRUE]
            ELSE IF ~IsProm(m.prev) THEN S
            ELSE IF ~PromiseLive(S.t, m.prev)
            THEN [S EXCEPT !.t = Throw(@, "stale promise")]
            ELSE IF S.lp # NULL
            THEN \* joint resolve: promise -> <- promise
                 [S EXCEPT !.t = Resolve(Resolve(S.t, S.lp, PromOrigin(m.prev)),
                                         m.prev, PromOrigin(S.lp)),
                           !.resolved = MapAdd(MapAdd(@, PromOrigin(S.lp)),
                                               PromOrigin(m.prev)),
                           !.lp = NULL]
            ELSE IF S.lf # UNDEF
            THEN [S EXCEPT !.t = Resolve(S.t, m.prev, S.lf),
                           !.resolved = MapAdd(@, PromOrigin(m.prev))]
            ELSE Resumed(S, m.prev, Resume(S.t, m.prev, HintOf(prevMn, UNDEF)))
        \* if (handle_next) ... else if (last_promise) ..., on the locals S1
        \* left by the handle_prev part
        HandleNext(S1, m1) ==
            IF handleNext
            THEN IF ~HasPos(m1) THEN S1
                 ELSE IF m1.next = UNDEF THEN [S1 EXCEPT !.sk = TRUE]
                 ELSE IF IsProm(m1.next) THEN [S1 EXCEPT !.lp = m1.next]
                 ELSE S1
            ELSE IF S1.lp # NULL
            THEN Resumed(S1, S1.lp, Resume(S1.t, S1.lp, RecHint(mn)))
            ELSE S1
        Continue(S1) == IF ~Ok(S1.t) THEN S1 ELSE HandleNext(S1, S1.t.fl[mn].m)
    IN IF ~Ok(S.t) THEN S
       ELSE IF mn = NONE
       THEN \* a fixed node or null: resolve promise -> fixed node
            IF S.lp # NULL
            THEN [S EXCEPT !.lf = node, !.t = Resolve(S.t, S.lp, node),
                           !.resolved = MapAdd(@, PromOrigin(S.lp)), !.lp = NULL]
            ELSE [S EXCEPT !.lf = node]
       ELSE Continue(HandlePrev(S.t.fl[mn].m))

\* a pass of the loop over removed that resolves promises and records nothing
RemovedStepUnrecorded(S, node, parent, prevMn) == HandlePromises(S, node, TRUE, TRUE, prevMn)
\* a pass of the loop over removed that keeps the record of a node that was
\* added and is removed again
RemovedStepKept(S, node, parent, prevMn) ==
    LET mn == FloatingGet(S.t, node)
        Removed(S1, r) ==
            IF ~Ok(S1.t) THEN S1
            ELSE IF mn # NONE
            THEN [S1 EXCEPT !.t = [SiblingIndexRemove(@, "mutated", r.m)
                                      EXCEPT !.fl[node].m = NoPos],
                            !.rp = @ \/ (HasPos(r.o) /\ r.o.parent = parent)]
            ELSE [S1 EXCEPT !.t = FloatingSet(@, node, [MutatedNode EXCEPT !.o = NewPos(parent)]),
                            !.fixed = Append(@, node), !.rp = TRUE]
        Stepped(S1) == Removed(S1, S1.t.fl[node])
    IN Stepped(HandlePromises(S, node, TRUE, TRUE, prevMn))
\* one pass of the loop over removed
RemovedStep(S, node, parent, prevMn) ==
    LET mn == FloatingGet(S.t, node)
        \* the body of the loop after handle_promises(node, true, true)
        Removed(S1, r) ==
            IF ~Ok(S1.t) THEN S1
            ELSE IF mn # NONE
            THEN IF ~HasPos(r.o)
                 THEN \* add + remove: the operations cancel out
                      [S1 EXCEPT !.t = FloatingDelete(SiblingIndexRemove(@, "mutated", r.m), node)]
                 ELSE [S1 EXCEPT !.t = [SiblingIndexRemove(@, "mutated", r.m)
                                           EXCEPT !.fl[node].m = NoPos],
                                 !.rp = @ \/ (r.o.parent = parent)]
            ELSE \* a fixed node, newly removed
                 [S1 EXCEPT !.t = FloatingSet(@, node, [MutatedNode EXCEPT !.o = NewPos(parent)]),
                            !.fixed = Append(@, node), !.rp = TRUE]
        Stepped(S1) == Removed(S1, S1.t.fl[node])
    IN Stepped(HandlePromises(S, node, TRUE, TRUE, prevMn))
RECURSIVE RemovedLoop(_, _, _, _, _)
RemovedLoop(S, removed, i, parent, prevMn) ==
    IF i > Len(removed) THEN S
    ELSE RemovedLoop(RemovedStep(S, removed[i], parent, prevMn), removed, i + 1, parent, prevMn)

\* original_promise_sibling(forward_dir, backward_dir, hint) for fprev
OriginalPromiseSibling(t, fprev, forwardDir, backwardDir, hint) ==
    LET sibling == IdxGet(t, "original", backwardDir, fprev)
        pv == Prom(fprev, forwardDir)
        \* promise.resume(hint); an unresolved promise becomes the sibling
        Promised(res) ==
            IF res.done \/ ~Ok(res.t) THEN res.t
            ELSE [res.t EXCEPT !.fl[fprev].o = SetSlot(@, forwardDir, pv)]
    IN IF ~Ok(t) THEN t
       ELSE IF sibling = NONE
       THEN Promised(Resume([t EXCEPT !.ptr[pv] = UNDEF], pv, hint))
       ELSE [t EXCEPT !.fl[fprev].o = SetSlot(@, forwardDir, RecNode(sibling))]
\* a loop that makes adjacent newly removed nodes each other's original
\* sibling without looking into the index of original siblings
RECURSIVE AdjacentFixedLive(_, _, _)
AdjacentFixedLive(t, fixed, fi) ==
    IF fi > Len(fixed) \/ ~Ok(t) THEN t
    ELSE LET fprev == fixed[fi - 1]
             fnext == fixed[fi]
             t1 == [t EXCEPT !.fl[fprev].o = SetSlot(@, "next", fnext),
                             !.fl[fnext].o = SetSlot(@, "prev", fprev)]
         IN AdjacentFixedLive(SiblingIndexAdd(t1, "original", fprev, t1.fl[fprev].o),
                              fixed, fi + 1)
\* the loop over adjacent newly removed nodes fixed[fi-1], fixed[fi]
RECURSIVE AdjacentFixed(_, _, _)
AdjacentFixed(t, fixed, fi) ==
    IF fi > Len(fixed) \/ ~Ok(t) THEN t
    ELSE
      LET fprev == fixed[fi - 1]
          fnext == fixed[fi]
          sibling == IdxGet(t, "original", "prev", fprev)
          other == IdxGet(t, "original", "next", fnext)
          t1 == IF sibling # NONE
                THEN IF other = NONE THEN Throw(t, "TypeError")
                     ELSE [t EXCEPT !.fl[fprev].o = SetSlot(@, "next", RecNode(sibling)),
                                    !.fl[fnext].o = SetSlot(@, "prev", RecNode(other))]
                ELSE [t EXCEPT !.fl[fprev].o = SetSlot(@, "next", fnext),
                               !.fl[fnext].o = SetSlot(@, "prev", fprev)]
      IN IF ~Ok(t1) THEN t1
         ELSE AdjacentFixed(SiblingIndexAdd(t1, "original", fprev, t1.fl[fprev].o), fixed, fi + 1)
\* mutation(): original siblings of the newly removed nodes
FixedSiblings(t, fixed, prev, next, prevMn, nextMn) ==
    LET last == fixed[Len(fixed)]
        Indexed(t3) == IF ~Ok(t3) THEN t3 ELSE SiblingIndexAdd(t3, "original", last, t3.fl[last].o)
    IN IF Len(fixed) = 0 \/ ~Ok(t) THEN t
       ELSE Indexed(OriginalPromiseSibling(
                AdjacentFixed(OriginalPromiseSibling(t, fixed[1], "prev", "next",
                                                     HintOf(prevMn, prev)),
                              fixed, 2),
                last, "next", "prev", HintOf(nextMn, next)))

\* a pass of the loop over added that gives every added node the siblings of
\* the record
AddedStepEnds(S, added, ai, parent, prev, next) ==
    LET node == added[ai]
        t == S.t
        isNew == ~t.fl[node].in
        pos == [parent |-> parent, prev |-> prev, next |-> next]
        t1 == IF isNew THEN FloatingSet(t, node, MutatedNode) ELSE t
        t2 == SiblingIndexAdd([t1 EXCEPT !.fl[node].m = pos], "mutated", node, pos)
    IN IF ~Ok(t) THEN S
       ELSE IF ~isNew /\ ~HasPos(t.fl[node].o)
       THEN [S EXCEPT !.t = Throw(t, "TypeError")]
       ELSE [S EXCEPT !.t = t2,
                      !.cands = IF ~isNew /\ t.fl[node].o.parent = parent
                                THEN Append(@, node) ELSE @]
\* one pass of the loop over added
AddedStep(S, added, ai, parent, prev, next) ==
    LET node == added[ai]
        t == S.t
        isNew == ~t.fl[node].in
        pos == [parent |-> parent,
                prev |-> IF ai > 1 THEN added[ai - 1] ELSE prev,
                next |-> IF ai < Len(added) THEN added[ai + 1] ELSE next]
        t1 == IF isNew THEN FloatingSet(t, node, MutatedNode) ELSE t
        t2 == SiblingIndexAdd([t1 EXCEPT !.fl[node].m = pos], "mutated", node, pos)
    IN IF ~Ok(t) THEN S
       ELSE IF ~isNew /\ ~HasPos(t.fl[node].o)
       THEN [S EXCEPT !.t = Throw(t, "TypeError")]
       ELSE [S EXCEPT !.t = t2,
                      !.cands = IF ~isNew /\ t.fl[node].o.parent = parent
                                THEN Append(@, node) ELSE @]
RECURSIVE AddedLoop(_, _, _, _, _, _)
AddedLoop(S, added, ai, parent, prev, next) ==
    IF ai > Len(added) THEN S
    ELSE AddedLoop(AddedStep(S, added, ai, parent, prev, next), added, ai + 1, parent, prev, next)

\* ---------------------------------------- TreeMutations.#revert_check
\* a walk over sibling slots visits every node at most once
MaxWalk == NumNodes + 2
NoHint == NodeHint(UNDEF)
NoAnchor == [kind |-> "none", v |-> UNDEF]
\* the loop of fixed_anchor, started at the record of mn
RECURSIVE AnchorWalk(_, _, _, _, _)
AnchorWalk(t, mn, dir, parent, fuel) ==
    LET m == t.fl[mn].m
        sibling == Slot(m, dir)
    IN IF ~HasPos(m) \/ sibling = UNDEF \/ IsProm(sibling) \/ fuel = 0 THEN NoAnchor
       ELSE IF sibling = NULL \/ ~Has(t, sibling) THEN [kind |-> "fixed", v |-> sibling]
       ELSE IF t.fl[sibling].o.parent = parent THEN [kind |-> "floating", v |-> sibling]
       ELSE AnchorWalk(t, sibling, dir, parent, fuel - 1)
\* a fixed_anchor that does not search past a floating node of another
\* parent: behind such a hint it finds no anchor
FixedAnchorBlocked(t, hint, exclusive, dir, parent) ==
    IF (hint.rec /\ hint.v = exclusive) \/ (~hint.rec /\ hint.v = UNDEF /\ exclusive = NONE)
    THEN NoAnchor
    ELSE IF ~hint.rec /\ hint.v # UNDEF THEN [kind |-> "fixed", v |-> hint.v]
    ELSE IF ~hint.rec THEN AnchorWalk(t, exclusive, dir, parent, MaxWalk)
    ELSE IF t.fl[hint.v].o.parent = parent THEN [kind |-> "floating", v |-> hint.v]
    ELSE NoAnchor
\* fixed_anchor(mn, exclusive, dir); exclusive is a record's node or NONE
FixedAnchor(t, hint, exclusive, dir, parent) ==
    IF (hint.rec /\ hint.v = exclusive) \/ (~hint.rec /\ hint.v = UNDEF /\ exclusive = NONE)
    THEN NoAnchor
    ELSE IF ~hint.rec /\ hint.v # UNDEF THEN [kind |-> "fixed", v |-> hint.v]
    ELSE IF ~hint.rec THEN AnchorWalk(t, exclusive, dir, parent, MaxWalk)
    ELSE IF t.fl[hint.v].o.parent = parent THEN [kind |-> "floating", v |-> hint.v]
    ELSE AnchorWalk(t, hint.v, dir, parent, MaxWalk)

\* mark_fixed of propagate: P carries the tracker t, the resolved keys, the
\* closure variable fixed, and cur, the mutated position of the record mn
\* (which stays readable once the record has left the floating map)
MarkFixed(P, mn, forwardDir) ==
    LET r == P.t.fl[mn]
        t1 == SiblingIndexRemove(SiblingIndexRemove(FloatingDelete(P.t, mn), "original", r.o),
                                 "mutated", r.m)
        fp == Slot(r.o, forwardDir)
    IN [P EXCEPT !.fixed = mn, !.cur = r.m,
                 !.t = IF IsProm(fp) THEN Discard(t1, fp) ELSE t1,
                 !.resolved = Without(@, mn)]
\* a sibling test that takes every candidate for reverted
SiblingMatchesAny(P, mn, backwardDir) == TRUE
\* the sibling test of propagate on the record of mn
SiblingMatches(P, mn, backwardDir) == Slot(P.t.fl[mn].o, backwardDir) = P.fixed
\* propagate: the loop over candidates[idx..end_idx) (0-based, step inc)
RECURSIVE PropagateCandidates(_, _, _, _, _, _, _)
PropagateCandidates(P, cands, idx, endIdx, inc, forwardDir, backwardDir) ==
    IF idx = endIdx \/ ~Ok(P.t) THEN P
    ELSE LET mn == cands[idx + 1] IN
         IF ~Has(P.t, mn) THEN [P EXCEPT !.t = Throw(@, "stale record")]
         ELSE IF ~SiblingMatches(P, mn, backwardDir) THEN [P EXCEPT !.ret = idx]
         ELSE PropagateCandidates(MarkFixed(P, mn, forwardDir), cands, idx + inc, endIdx, inc,
                                  forwardDir, backwardDir)
\* propagate: the while (true) loop beyond the candidates
RECURSIVE PropagateBeyond(_, _, _, _, _)
PropagateBeyond(P, parent, forwardDir, backwardDir, fuel) ==
    LET sibling == Slot(P.cur, forwardDir) IN
    IF ~Ok(P.t) THEN P
    ELSE IF ~HasPos(P.cur) THEN [P EXCEPT !.t = Throw(@, "TypeError")]
    ELSE IF fuel = 0 THEN [P EXCEPT !.t = Throw(@, "endless walk")]
    ELSE IF sibling = NULL \/ sibling = UNDEF \/ IsProm(sibling) \/ ~Has(P.t, sibling) THEN P
    ELSE IF P.t.fl[sibling].o.parent # parent
    THEN PropagateBeyond([P EXCEPT !.cur = P.t.fl[sibling].m], parent, forwardDir, backwardDir,
                         fuel - 1)
    ELSE IF ~SiblingMatches(P, sibling, backwardDir) THEN P
    ELSE PropagateBeyond(MarkFixed(P, sibling, forwardDir), parent, forwardDir, backwardDir,
                         fuel - 1)
\* propagate(fixed, idx, end_idx, forward_dir, backward_dir, extend); extend
\* is [on |-> FALSE] for false, [on |-> TRUE, given |-> FALSE] for true and
\* [on |-> TRUE, given |-> TRUE, hint |-> h] for a MutatedNode, Node or null.
\* ret is the returned idx, NONE for null.
ExtendFalse == [on |-> FALSE, given |-> FALSE, hint |-> NoHint]
ExtendTrue == [on |-> TRUE, given |-> FALSE, hint |-> NoHint]
ExtendWith(h) ==
    IF ~h.rec /\ h.v = UNDEF THEN ExtendTrue ELSE [on |-> TRUE, given |-> TRUE, hint |-> h]
Propagate(t, resolved, cands, fixed, idx, endIdx, forwardDir, backwardDir, extend, parent) ==
    LET P0 == [t |-> t, resolved |-> resolved, fixed |-> fixed, cur |-> NoPos, ret |-> NONE]
        inc == IF endIdx > idx THEN 1 ELSE 0 - 1
        e == extend.hint.v
        \* if (extend) ..., after the loop over the candidates left P1
        Extended(P1) ==
            IF P1.ret # NONE \/ ~Ok(P1.t) \/ ~extend.on THEN P1
            ELSE IF ~extend.given
            THEN PropagateBeyond(P1, parent, forwardDir, backwardDir, MaxWalk)
            ELSE IF ~extend.hint.rec THEN P1
            ELSE IF ~Has(P1.t, e) THEN [P1 EXCEPT !.t = Throw(@, "stale record")]
            ELSE IF P1.t.fl[e].o.parent = parent
            THEN IF ~SiblingMatches(P1, e, backwardDir) THEN P1
                 ELSE PropagateBeyond(MarkFixed(P1, e, forwardDir), parent, forwardDir,
                                      backwardDir, MaxWalk)
            ELSE PropagateBeyond([P1 EXCEPT !.cur = P1.t.fl[e].m], parent, forwardDir,
                                 backwardDir, MaxWalk)
    IN Extended(PropagateCandidates(P0, cands, idx, endIdx, inc, forwardDir, backwardDir))
\* #revert_check(candidates, parent, mark_reverted, prev, next): the tracker
\* and the resolved keys after it
RevertCheck(t, resolved, candidates, parent, prev, next) ==
    LET RC0 == [t |-> t, resolved |-> resolved]
        last == IF Len(candidates) = 0 THEN NONE ELSE candidates[Len(candidates)]
        anchorN == FixedAnchor(t, next, last, "next", parent)
        cands2 == IF anchorN.kind = "floating" THEN Append(candidates, anchorN.v) ELSE candidates
        \* the candidates before the first one the pass from next left floating
        \* are checked from prev
        Checked(P) == [t |-> P.t, resolved |-> P.resolved]
        FromPrev(PN, anchorP) ==
            IF anchorN.kind = "fixed" /\ (PN.ret = NONE \/ ~Ok(PN.t)) THEN Checked(PN)
            ELSE IF Len(cands2) = 0 THEN RC0
            ELSE IF anchorP.kind = "fixed"
            THEN Checked(Propagate(PN.t, PN.resolved, cands2, anchorP.v, 0,
                                   IF PN.ret = NONE THEN Len(cands2) ELSE PN.ret + 1,
                                   "next", "prev",
                                   IF PN.ret = NONE THEN ExtendTrue ELSE ExtendFalse, parent))
            ELSE Checked(PN)
        FromNext(PN) ==
            FromPrev(PN, FixedAnchor(PN.t, prev, IF Len(cands2) = 0 THEN NONE ELSE cands2[1],
                                     "prev", parent))
    IN IF ~Ok(t) THEN RC0
       ELSE FromNext(IF anchorN.kind = "fixed"
                     THEN Propagate(t, resolved, candidates, anchorN.v, Len(candidates) - 1,
                                    0 - 1, "prev", "next", ExtendWith(prev), parent)
                     ELSE [t |-> t, resolved |-> resolved, fixed |-> UNDEF, cur |-> NoPos,
                           ret |-> NONE])

\* the loop over resolved.entries(): entries deleted by mark_reverted while
\* the loop runs are not visited
RECURSIVE ResolvedLoop(_, _, _)
ResolvedLoop(RC, i, parent) ==
    LET \* the entries before the next one to visit, after the check left RC1
        Visited(RC1) == {RC.resolved[j] : j \in 1..i} \cap SeqToSet(RC1.resolved)
        Resume1(RC1) == ResolvedLoop(RC1, Cardinality(Visited(RC1)) + 1, parent)
    IN IF i > Len(RC.resolved) \/ ~Ok(RC.t) THEN RC
       ELSE Resume1(RevertCheck(RC.t, RC.resolved, <<RC.resolved[i]>>, parent, NoHint, NoHint))

\* ------------------------------------ TreeMutations.#assert_valid_state
Sides == {"prev", "next"}
Modes == {"original", "mutated"}
Floating(t) == {n \in Nodes : t.fl[n].in}
\* the (record, mode, side) slots that hold v
SlotsHolding(t, mode, v) ==
    {<<n, side>> \in Floating(t) \X Sides :
        HasPos(GetPos(t.fl[n], mode)) /\ Slot(GetPos(t.fl[n], mode), side) = v}
IndexMismatch(t) ==
    \E n \in Floating(t), mode \in Modes, side \in Sides :
        LET pos == GetPos(t.fl[n], mode) IN
        HasPos(pos) /\ IsNode(Slot(pos, side)) /\ IdxGet(t, mode, side, Slot(pos, side)) # n
SlotPromises(t) ==
    {pv \in PromIds : SlotsHolding(t, "original", pv) \cup SlotsHolding(t, "mutated", pv) # {}}
PromiseInvalid(t, pv) ==
    \/ t.ptr[pv] = UNDEF
    \/ Cardinality(SlotsHolding(t, "mutated", pv)) # 1
    \/ \E sl \in SlotsHolding(t, "mutated", pv) : t.ptr[pv] # sl[1]
    \/ Cardinality(SlotsHolding(t, "original", pv)) # 1
\* check_anchor(smn, dir): TRUE when it throws "node position is reverted"
RECURSIVE CheckAnchorWalk(_, _, _, _, _, _)
CheckAnchorWalk(t, parent, target, sibling, dir, fuel) ==
    LET smn == FloatingGet(t, sibling)
        nxt == IF HasPos(t.fl[smn].m) THEN Slot(t.fl[smn].m, dir) ELSE UNDEF
    IN IF smn = NONE THEN target = sibling
       ELSE IF t.fl[smn].o.parent = parent \/ fuel = 0 THEN FALSE
       ELSE IF nxt = UNDEF \/ IsProm(nxt) THEN FALSE
       ELSE CheckAnchorWalk(t, parent, target, nxt, dir, fuel - 1)
CheckAnchor(t, n, dir) ==
    CheckAnchorWalk(t, t.fl[n].o.parent, Slot(t.fl[n].o, dir), Slot(t.fl[n].m, dir), dir, MaxWalk)
RevertMissed(t) ==
    \E n \in Floating(t) :
        /\ HasPos(t.fl[n].m) /\ HasPos(t.fl[n].o) /\ t.fl[n].m.parent = t.fl[n].o.parent
        /\ (CheckAnchor(t, n, "prev") \/ CheckAnchor(t, n, "next"))
\* a promise object that outlived the record it was created for
DanglingPromise(t) == \E pv \in SlotPromises(t) : ~PromiseLive(t, pv)
AssertValidState(t) ==
    IF ~Ok(t) THEN t
    ELSE IF DanglingPromise(t) THEN Throw(t, "stale promise")
    ELSE IF IndexMismatch(t) THEN Throw(t, "Error: indexed sibling doesn't match MutatedNode")
    ELSE IF \E pv \in SlotPromises(t) : PromiseInvalid(t, pv)
    THEN Throw(t, "Error: promise is invalid")
    ELSE IF RevertMissed(t) THEN Throw(t, "Error: node position is reverted")
    ELSE t

\* a mutation() that updates the mutated siblings of the floating prev and
\* next before the loop over removed
MutationEndpointsFirst(t, parent, removed, added, prev, next) ==
    LET prevMn == FloatingGet(t, prev)
        Linked(t3, mn, sibling, side) ==
            IF mn # NONE /\ Ok(t3) THEN SiblingIndexUpdate(t3, "mutated", mn, sibling, side, parent)
            ELSE t3
        Checked(S6, resolved, sk, nextMn) ==
            AssertValidState(
                ResolvedLoop(IF S6.rp \/ sk \/ Len(S6.cands) > 0
                             THEN RevertCheck(S6.t, resolved, S6.cands, parent,
                                              HintOf(prevMn, prev), HintOf(nextMn, next))
                             ELSE [t |-> S6.t, resolved |-> resolved],
                             1, parent).t)
        Fixed(S2, nextMn) ==
            IF ~Ok(S2.t) THEN S2.t
            ELSE Checked(AddedLoop(
                             [S2 EXCEPT !.t = FixedSiblings(@, S2.fixed, prev, next, prevMn,
                                                            nextMn)],
                             added, 1, parent, prev, next),
                         SelectSeq(S2.resolved, LAMBDA mn : S2.t.fl[mn].m.parent = parent),
                         (S2.sk \/ Len(S2.resolved) > 0)
                             /\ ~((prevMn = NONE \/ S2.t.fl[prevMn].m.prev = UNDEF)
                                  /\ (nextMn = NONE \/ S2.t.fl[nextMn].m.next = UNDEF)),
                         nextMn)
        Removed(S1) == Fixed(HandlePromises(S1, next, TRUE, FALSE, prevMn), FloatingGet(S1.t, next))
        First(t0) == Linked(Linked(t0, prevMn,
                                   IF Len(added) > 0 THEN added[1] ELSE next, "next"),
                            FloatingGet(t0, next),
                            IF Len(added) > 0 THEN added[Len(added)] ELSE prev, "prev")
    IN Removed(RemovedLoop(HandlePromises(MutationLocals(First(t)), prev, FALSE, TRUE, NONE),
                           removed, 1, parent, prevMn))
\* mutation(parent, removed, added, prev, next)
Mutation(t, parent, removed, added, prev, next) ==
    LET prevMn == FloatingGet(t, prev)
        \* mutated siblings of the nodes around the added ones
        Linked(t3, mn, sibling, side) ==
            IF mn # NONE /\ Ok(t3) THEN SiblingIndexUpdate(t3, "mutated", mn, sibling, side, parent)
            ELSE t3
        \* the revert check, the loop over resolved, the closing assertion
        Checked(S6, resolved, sk, nextMn) ==
            AssertValidState(
                ResolvedLoop(IF S6.rp \/ sk \/ Len(S6.cands) > 0
                             THEN RevertCheck(S6.t, resolved, S6.cands, parent,
                                              HintOf(prevMn, prev), HintOf(nextMn, next))
                             ELSE [t |-> S6.t, resolved |-> resolved],
                             1, parent).t)
        \* from the fixed nodes on, with the locals S2 both handle_promises left
        Fixed(S2, nextMn) ==
            IF ~Ok(S2.t) THEN S2.t
            ELSE Checked(AddedLoop(
                             [S2 EXCEPT !.t =
                                 Linked(Linked(FixedSiblings(@, S2.fixed, prev, next, prevMn,
                                                             nextMn),
                                               prevMn,
                                               IF Len(added) > 0 THEN added[1] ELSE next,
                                               "next"),
                                        nextMn,
                                        IF Len(added) > 0 THEN added[Len(added)] ELSE prev,
                                        "prev")],
                             added, 1, parent, prev, next),
                         SelectSeq(S2.resolved, LAMBDA mn : S2.t.fl[mn].m.parent = parent),
                         (S2.sk \/ Len(S2.resolved) > 0)
                             /\ ~((prevMn = NONE \/ S2.t.fl[prevMn].m.prev = UNDEF)
                                  /\ (nextMn = NONE \/ S2.t.fl[nextMn].m.next = UNDEF)),
                         nextMn)
        Removed(S1) == Fixed(HandlePromises(S1, next, TRUE, FALSE, prevMn), FloatingGet(S1.t, next))
    IN Removed(RemovedLoop(HandlePromises(MutationLocals(t), prev, FALSE, TRUE, NONE),
                           removed, 1, parent, prevMn))

\* ---------------------------------------- TreeMutations.synchronize
\* collect_promises(mn, dir) returns early for a known sibling; for an
\* unknown one its first statement reads the undeclared variable node
CollectThrows(pos, dir) == Slot(pos, dir) = UNDEF \/ IsProm(Slot(pos, dir))
RECURSIVE SynchronizeLoop(_, _, _, _)
\* a loop that takes the live position of a node without looking at its parentNode
SynchronizeLoopUnchecked(t, ch, order, i) ==
    IF i > Len(order) \/ ~Ok(t) THEN t
    ELSE
      LET n == order[i]
          m == t.fl[n].m
          live == [parent |-> ParentOf(ch, n), prev |-> PrevSib(ch, n), next |-> NextSib(ch, n)]
      IN IF HasPos(m)
         THEN IF CollectThrows(m, "prev") \/ CollectThrows(m, "next")
              THEN Throw(t, "ReferenceError")
              ELSE SynchronizeLoop(t, ch, order, i + 1)
         ELSE SynchronizeLoop(SiblingIndexAdd([t EXCEPT !.fl[n].m = live], "mutated", n, live),
                              ch, order, i + 1)
SynchronizeLoop(t, ch, order, i) ==
    IF i > Len(order) \/ ~Ok(t) THEN t
    ELSE
      LET n == order[i]
          m == t.fl[n].m
          live == [parent |-> ParentOf(ch, n), prev |-> PrevSib(ch, n), next |-> NextSib(ch, n)]
      IN IF HasPos(m)
         THEN IF CollectThrows(m, "prev") \/ CollectThrows(m, "next")
              THEN Throw(t, "ReferenceError")
              ELSE SynchronizeLoop(t, ch, order, i + 1)
         ELSE IF ParentOf(ch, n) # NULL
         THEN SynchronizeLoop(SiblingIndexAdd([t EXCEPT !.fl[n].m = live], "mutated", n, live),
                              ch, order, i + 1)
         ELSE SynchronizeLoop(t, ch, order, i + 1)
\* synchronize(): with no promise collected there is nothing to resolve and
\* no candidate to check
TreeSynchronize(t, ch) == AssertValidState(SynchronizeLoop(t, ch, t.ord, 1))

\* ------------------------------------------------------ PropertyCache
\* A cache holds one native key (an attribute) and one custom key.  in: the
\* node has a cache in MutationDiff.props, at: its place in the insertion
\* order of props; an entry {value, dirty} is has when its key is in the Map.
NoEntry == [has |-> FALSE, value |-> 0, dirty |-> FALSE]
NoCache ==
    [in |-> FALSE, at |-> 0, native |-> NoEntry, custom |-> NoEntry, clean |-> 0, ndirty |-> 0]
PropertyCache == [NoCache EXCEPT !.in = TRUE]
\* this[mode].get(key)
Entry(pc, mode) == IF mode = "native" THEN pc.native ELSE pc.custom
SetEntry(pc, mode, e) ==
    IF mode = "native" THEN [pc EXCEPT !.native = e] ELSE [pc EXCEPT !.custom = e]
\* a mark that sets the dirty flag of the key and leaves the counters alone
MarkUncounted(pc, mode, value, oldValue) ==
    IF ~Entry(pc, mode).has
    THEN SetEntry(pc, mode, [has |-> TRUE, value |-> oldValue, dirty |-> (value # oldValue)])
    ELSE SetEntry(pc, mode, [Entry(pc, mode) EXCEPT !.dirty = (value # @.value)])
\* a mark that compares with old_value instead of the stored original
MarkAgainstOld(pc, mode, value, oldValue) ==
    [SetEntry(pc, mode, [has |-> TRUE,
                         value |-> IF Entry(pc, mode).has THEN Entry(pc, mode).value
                                   ELSE oldValue,
                         dirty |-> (value # oldValue)])
        EXCEPT !.ndirty = @ + (IF value # oldValue THEN 1 ELSE 0)
                            - (IF Entry(pc, mode).dirty THEN 1 ELSE 0),
               !.clean = @ + (IF value # oldValue THEN 0 ELSE 1)
                           - (IF Entry(pc, mode).has /\ ~Entry(pc, mode).dirty THEN 1 ELSE 0)]
\* a mark that stores old_value as the original at every call
MarkRestored(pc, mode, value, oldValue) ==
    [SetEntry(pc, mode, [has |-> TRUE, value |-> oldValue, dirty |-> (value # oldValue)])
        EXCEPT !.ndirty = @ + (IF value # oldValue THEN 1 ELSE 0)
                            - (IF Entry(pc, mode).dirty THEN 1 ELSE 0),
               !.clean = @ + (IF value # oldValue THEN 0 ELSE 1)
                           - (IF Entry(pc, mode).has /\ ~Entry(pc, mode).dirty THEN 1 ELSE 0)]
\* a mark that counts a later change of the dirty flag in _dirty only
MarkOneCounter(pc, mode, value, oldValue) ==
    LET e == Entry(pc, mode) IN
    IF ~e.has
    THEN [SetEntry(pc, mode, [has |-> TRUE, value |-> oldValue, dirty |-> (value # oldValue)])
             EXCEPT !.ndirty = IF value # oldValue THEN @ + 1 ELSE @,
                    !.clean = IF value # oldValue THEN @ ELSE @ + 1]
    ELSE IF (value # e.value) # e.dirty
    THEN [SetEntry(pc, mode, [e EXCEPT !.dirty = (value # e.value)])
             EXCEPT !.ndirty = IF value # e.value THEN @ + 1 ELSE @ - 1]
    ELSE pc
\* mark(mode, key, value, old_value)
Mark(pc, mode, value, oldValue) ==
    LET e == Entry(pc, mode) IN
    IF ~e.has
    THEN [SetEntry(pc, mode, [has |-> TRUE, value |-> oldValue, dirty |-> (value # oldValue)])
             EXCEPT !.ndirty = IF value # oldValue THEN @ + 1 ELSE @,
                    !.clean = IF value # oldValue THEN @ ELSE @ + 1]
    ELSE IF (value # e.value) # e.dirty
    THEN [SetEntry(pc, mode, [e EXCEPT !.dirty = (value # e.value)])
             EXCEPT !.ndirty = IF value # e.value THEN @ + 1 ELSE @ - 1,
                    !.clean = IF value # e.value THEN @ - 1 ELSE @ + 1]
    ELSE pc
\* revert(node, null): the attribute value of the node afterwards
PropRevert(pc, current) == IF pc.native.has /\ pc.native.dirty THEN pc.native.value ELSE current
\* revert(node, custom_revert) with a callback reads the undeclared variable
\* props after the loop over native
PropRevertThrows(pc) == TRUE
\* revert(custom_revert) with a callback: the nodes for whose custom key the
\* callback is invoked
CallbackCalls(props) ==
    {n \in Nodes : props[n].in /\ ~PropRevertThrows(props[n])
                    /\ props[n].custom.has /\ props[n].custom.dirty}
\* synchronize() destructures the entries of this.native.values() and of
\* this.custom.values(), which are objects: it throws on the first entry
PropSynchronizeThrows(pc) == pc.native.has \/ pc.custom.has

\* -------------------------------------------------------- MutationDiff
\* #prop(node, mode, key, value, old_value)
Prop(props, node, mode, value, oldValue) ==
    [props EXCEPT ![node] =
        Mark(IF props[node].in THEN props[node]
             ELSE [PropertyCache EXCEPT !.at = Cardinality({n \in Nodes : props[n].in}) + 1],
             mode, value, oldValue)]
\* attribute(node, key, old_value); current is node.getAttribute(key)
Attribute(props, node, current, oldValue) == Prop(props, node, "native", current, oldValue)
\* custom(node, key, value, old_value)
Custom(props, node, value, oldValue) == Prop(props, node, "custom", value, oldValue)
Dirty(props, n) == props[n].in /\ props[n].ndirty # 0
\* root.compareDocumentPosition(node) & DOCUMENT_POSITION_CONTAINED_BY
ContainedBy(ch, root, node) == node # root /\ Contains(ch, root, node)
\* a mutated(root) that tests the original parent of a record only
MutatedOriginalOnly(props, t, ch, root) ==
    IF root # NULL
    THEN \/ \E n \in Nodes : Dirty(props, n) /\ ContainedBy(ch, root, n)
         \/ \E n \in Floating(t) : HasPos(t.fl[n].o) /\ Contains(ch, root, t.fl[n].o.parent)
    ELSE Len(t.ord) > 0 \/ \E n \in Nodes : Dirty(props, n)
\* mutated(root); root is a node or NULL
Mutated(props, t, ch, root) ==
    IF root # NULL
    THEN \/ \E n \in Nodes : Dirty(props, n) /\ ContainedBy(ch, root, n)
         \/ \E n \in Floating(t) :
               \/ HasPos(t.fl[n].o) /\ Contains(ch, root, t.fl[n].o.parent)
               \/ ParentOf(ch, n) # NULL /\ Contains(ch, root, ParentOf(ch, n))
    ELSE Len(t.ord) > 0 \/ \E n \in Nodes : Dirty(props, n)
\* diff(): no data or custom property is modelled and the attribute branch
\* tests the undefined MutationDiff.ATTRIBUTES, so only position changes
\* are reported
Diff(t) == [n \in Floating(t) |-> [original |-> t.fl[n].o, mutated |-> t.fl[n].m]]
\* a diff() that hands out the position objects of the records themselves
DiffAliases(t, n, mode) == FALSE
\* diff(): d.original and d.mutated are Object.assign({}, ...) copies of the
\* positions of record n
DiffCopies(t, n, mode) == TRUE

\* the filter bits of diff(); ATTRIBUTES is the static diff() tests for the
\* attributes, which the class does not define: undefined is 0 under &
ALL == 65535
MUTATED == 16
ORIGINAL == 32
PROPERTY == 7
ATTRIBUTE == 2
CUSTOM == 4
ATTRIBUTES == 0
\* a & b
RECURSIVE BitAnd(_, _)
BitAnd(a, b) ==
    IF a = 0 \/ b = 0 THEN 0
    ELSE (a % 2) * (b % 2) + 2 * BitAnd(a \div 2, b \div 2)
\* the {original, mutated} of one dirty entry; a member left out is UNDEF
NoLog == [has |-> FALSE, original |-> UNDEF, mutated |-> UNDEF]
EntryLog(e, filter, current) ==
    IF e.has /\ e.dirty
    THEN [has |-> TRUE,
          original |-> IF BitAnd(filter, ORIGINAL) # 0 THEN e.value ELSE UNDEF,
          mutated |-> IF BitAnd(filter, MUTATED) # 0 THEN current ELSE UNDEF]
    ELSE NoLog
\* the log of diff() for one cache: attribute and custom, no custom_getter
CacheLog(pc, filter, current) ==
    [attribute |-> IF BitAnd(filter, ATTRIBUTES) # 0
                   THEN EntryLog(pc.native, filter, current) ELSE NoLog,
     custom |-> IF BitAnd(filter, CUSTOM) # 0
                THEN EntryLog(pc.custom, filter, UNDEF) ELSE NoLog]
\* diff(filter): the part from PropertyCache, a log for each node with a diff
DiffProperty(props, at, filter) ==
    LET logged == IF (BitAnd(filter, ORIGINAL) # 0 \/ BitAnd(filter, MUTATED) # 0)
                     /\ BitAnd(filter, PROPERTY) # 0
                  THEN {n \in Nodes :
                          /\ props[n].in /\ props[n].ndirty # 0
                          /\ \/ CacheLog(props[n], filter, at[n]).attribute.has
                             \/ CacheLog(props[n], filter, at[n]).custom.has}
                  ELSE {}
    IN [n \in logged |-> CacheLog(props[n], filter, at[n])]

\* link_siblings without skip.add(link): linked nodes are not remembered
RECURSIVE LinkSiblingsUnskipped(_, _, _, _, _, _)
LinkSiblingsUnskipped(G, t, mode, bop, dir, fuel) ==
    LET link == Slot(bop, dir) IN
    IF link = NULL \/ link = UNDEF \/ ~Has(t, link) \/ fuel = 0
    THEN [G EXCEPT !.group = IF dir = "prev" THEN [@ EXCEPT !.prev = link]
                             ELSE [@ EXCEPT !.next = link]]
    ELSE LET G1 == [G EXCEPT !.group.nodes = IF dir = "prev" THEN <<link>> \o @
                                             ELSE Append(@, link)]
             nxt == GetPos(t.fl[link], mode)
         IN IF ~HasPos(nxt) THEN G1 ELSE LinkSiblingsUnskipped(G1, t, mode, nxt, dir, fuel - 1)
\* diff_grouped_children: link_siblings(group, op, dir, arrfn); G carries
\* the group and the skip set
RECURSIVE LinkSiblings(_, _, _, _, _, _)
LinkSiblings(G, t, mode, bop, dir, fuel) ==
    LET link == Slot(bop, dir) IN
    IF link = NULL \/ link = UNDEF \/ ~Has(t, link) \/ fuel = 0
    THEN [G EXCEPT !.group = IF dir = "prev" THEN [@ EXCEPT !.prev = link]
                             ELSE [@ EXCEPT !.next = link]]
    ELSE LET G1 == [G EXCEPT !.skip = @ \cup {link},
                             !.group.nodes = IF dir = "prev" THEN <<link>> \o @
                                             ELSE Append(@, link)]
             nxt == GetPos(t.fl[link], mode)
         IN IF ~HasPos(nxt) THEN G1 ELSE LinkSiblings(G1, t, mode, nxt, dir, fuel - 1)
RECURSIVE GroupLoop(_, _, _, _, _, _)
GroupLoop(t, mode, i, skip, groups, removed) ==
    IF i > Len(t.ord)
    THEN IF Len(removed) > 0
         THEN Append(groups, [nodes |-> removed, parent |-> NULL, prev |-> UNDEF, next |-> UNDEF])
         ELSE groups
    ELSE
      LET node == t.ord[i]
          op == GetPos(t.fl[node], mode)
          G0 == [group |-> [nodes |-> <<node>>, parent |-> op.parent, prev |-> UNDEF,
                            next |-> UNDEF],
                 skip |-> skip]
          G2 == LinkSiblings(LinkSiblings(G0, t, mode, op, "prev", MaxWalk), t, mode, op,
                             "next", MaxWalk)
      IN IF node \in skip THEN GroupLoop(t, mode, i + 1, skip \ {node}, groups, removed)
         ELSE IF ~HasPos(op) THEN GroupLoop(t, mode, i + 1, skip, groups, Append(removed, node))
         ELSE GroupLoop(t, mode, i + 1, G2.skip, Append(groups, G2.group), removed)
DiffGroupedChildren(t, mode) == GroupLoop(t, mode, 1, {}, <<>>, <<>>)

\* -------------------------------------------------------- DOM insertion
RECURSIVE DetachAll(_, _, _)
DetachAll(ch, ns, i) == IF i > Len(ns) THEN ch ELSE DetachAll(Detach(ch, ns[i]), ns, i + 1)
\* the nodes ns, detached, inserted into p before ref (NULL: appended)
InsertBefore(ch, p, ref, ns) ==
    LET c1 == DetachAll(ch, ns, 1)
        at == IF ref = NULL THEN Len(c1[p]) + 1 ELSE IndexOf(c1[p], ref)
    IN [c1 EXCEPT ![p] = InsertAt(@, at, ns)]
\* inserting ns into p is a HierarchyRequestError when p is inside one of them
HierarchyError(ch, p, ns) == \E i \in 1..Len(ns) : Contains(ch, ns[i], p)
\* the first sibling after (before) x that is not one of ns
RECURSIVE ViableNext(_, _, _)
ViableNext(ch, x, ns) ==
    LET y == NextSib(ch, x) IN
    IF y = NULL \/ y \notin SeqToSet(ns) THEN y ELSE ViableNext(ch, y, ns)
RECURSIVE ViablePrev(_, _, _)
ViablePrev(ch, x, ns) ==
    LET y == PrevSib(ch, x) IN
    IF y = NULL \/ y \notin SeqToSet(ns) THEN y ELSE ViablePrev(ch, y, ns)
\* D is [ch, err]; the ChildNode and ParentNode methods used by the patch
DomInsert(D, p, ref, ns) ==
    IF D.err # "none" THEN D
    ELSE IF HierarchyError(D.ch, p, ns) THEN [D EXCEPT !.err = "HierarchyRequestError"]
    ELSE [D EXCEPT !.ch = InsertBefore(D.ch, p, ref, ns)]
Before(D, x, ns) ==
    LET p == ParentOf(D.ch, x)
        vp == ViablePrev(D.ch, x, ns)
        c1 == DetachAll(D.ch, ns, 1)
    IN IF D.err # "none" \/ p = NULL THEN D
       ELSE DomInsert(D, p, IF vp = NULL THEN FirstChild(c1, p) ELSE NextSib(c1, vp), ns)
After(D, x, ns) ==
    LET p == ParentOf(D.ch, x) IN
    IF D.err # "none" \/ p = NULL THEN D ELSE DomInsert(D, p, ViableNext(D.ch, x, ns), ns)
AppendNodes(D, p, ns) == DomInsert(D, p, NULL, ns)
Prepend(D, p, ns) == DomInsert(D, p, FirstChild(DetachAll(D.ch, ns, 1), p), ns)

\* ----------------------------------- MutationDiff.patch_grouped_children
Known(s) == s # UNDEF /\ ~IsProm(s)
\* a patch whose first loop removes nothing
PatchRemoveNone(ch, groups, i) == ch
\* the first loop: every node of every group is removed
RECURSIVE PatchRemove(_, _, _)
PatchRemove(ch, groups, i) ==
    IF i > Len(groups) THEN ch
    ELSE PatchRemove(DetachAll(ch, groups[i].nodes, 1), groups, i + 1)
\* a patch that places no group once a group has no known sibling
PatchAddsUntilUnknown(groups) ==
    IF \E i \in DOMAIN groups :
          groups[i].parent # NULL /\ ~Known(groups[i].next) /\ ~Known(groups[i].prev)
    THEN <<>>
    ELSE SelectSeq(groups, LAMBDA g : g.parent # NULL /\ (Known(g.next) \/ Known(g.prev)))
\* the array add: the groups that have a parent and a known sibling
PatchAdds(groups) == SelectSeq(groups, LAMBDA g : g.parent # NULL /\ (Known(g.next) \/ Known(g.prev)))
\* the second loop: the node movements
RECURSIVE PatchMove(_, _, _)
PatchMove(D, add, i) ==
    IF i > Len(add) THEN D
    ELSE LET g == add[i] IN
         PatchMove(IF Known(g.next)
                   THEN (IF g.next # NULL THEN Before(D, g.next, g.nodes)
                         ELSE AppendNodes(D, g.parent, g.nodes))
                   ELSE (IF g.prev # NULL THEN After(D, g.prev, g.nodes)
                         ELSE Prepend(D, g.parent, g.nodes)),
                   add, i + 1)
PatchGroupedChildren(ch, groups) ==
    PatchMove([ch |-> PatchRemove(ch, groups, 1), err |-> "none"], PatchAdds(groups), 1)

\* MutationDiff.revert(): the live tree and attributes it leaves
RevertAttr(props, at) == [n \in DOMAIN at |-> PropRevert(props[n], at[n])]
RevertTree(t, ch) == PatchGroupedChildren(ch, DiffGroupedChildren(t, "original"))
\* the groups of revert() that have a parent and no known sibling: the patch
\* warns "MutationDiff: siblings unknown, can't patch" and goes on
Unplaced(groups) ==
    {i \in DOMAIN groups : groups[i].parent # NULL /\ ~Known(groups[i].next) /\ ~Known(groups[i].prev)}
RevertWarns(t) == Unplaced(DiffGroupedChildren(t, "original")) # {}
\* revert(custom_revert) with a callback: the attributes after the revert of
\* the first cache of props, which throws
RevertFirst(props, at) ==
    [n \in DOMAIN at |-> IF props[n].in /\ props[n].at = 1 THEN PropRevert(props[n], at[n])
                         ELSE at[n]]
\* MutationDiff.synchronize(): the tracker it leaves
MDSynchronize(props, t, ch) ==
    IF \E n \in Nodes : props[n].in /\ PropSynchronizeThrows(props[n])
    THEN Throw(t, "TypeError")
    ELSE TreeSynchronize(t, ch)

\* -------------------------------------------------------- MutatedRange
\* document order: the nodes of the tree of n, parents first
RECURSIVE Preorder(_, _)
Preorder(ch, n) ==
    LET RECURSIVE Kid(_)
        Kid(i) == IF i > Len(ch[n]) THEN <<>> ELSE Preorder(ch, ch[n][i]) \o Kid(i + 1)
    IN <<n>> \o Kid(1)
RECURSIVE TopOf(_, _)
TopOf(ch, n) == IF ParentOf(ch, n) = NULL THEN n ELSE TopOf(ch, ParentOf(ch, n))
\* a.compareDocumentPosition(b), by the bits the range tests
ComparePos(ch, a, b) ==
    IF a = b THEN "same"
    ELSE IF TopOf(ch, a) # TopOf(ch, b) THEN "disconnected"
    ELSE IF Contains(ch, b, a) THEN "contains"
    ELSE IF Contains(ch, a, b) THEN "contained_by"
    ELSE LET order == Preorder(ch, TopOf(ch, a)) IN
         IF IndexOf(order, b) < IndexOf(order, a) THEN "preceding" ELSE "following"
\* new MutatedRange(): setStart(null, true), setEnd(null, true)
EmptyRange == [after |-> NULL, after_close |-> TRUE, before |-> NULL, before_open |-> TRUE,
               err |-> "none"]
RangeThrow(r, e) == IF r.err = "none" THEN [r EXCEPT !.err = e] ELSE r
NoParentError == "Error: Node has no parentNode"
\* setStartBefore(node), setEndAfter(node) without collapse
SetStartBefore(r, ch, node) ==
    LET prev == PrevSib(ch, node) IN
    IF prev = NULL /\ ParentOf(ch, node) = NULL THEN RangeThrow(r, NoParentError)
    ELSE [r EXCEPT !.after = IF prev # NULL THEN prev ELSE ParentOf(ch, node),
                   !.after_close = prev # NULL]
SetEndAfter(r, ch, node) ==
    LET next == NextSib(ch, node) IN
    IF next = NULL /\ ParentOf(ch, node) = NULL THEN RangeThrow(r, NoParentError)
    ELSE [r EXCEPT !.before = IF next # NULL THEN next ELSE ParentOf(ch, node),
                   !.before_open = next # NULL]
\* a collapse that leaves the other anchor where it is
CollapseNone(r, ch, toStart) == r
\* collapse(toStart)
Collapse(r, ch, toStart) ==
    IF toStart
    THEN IF r.after_close THEN SetEndAfter(r, ch, r.after)
         ELSE LET child == FirstChild(ch, r.after) IN
              [r EXCEPT !.before = IF child # NULL THEN child ELSE r.after,
                        !.before_open = child # NULL]
    ELSE IF r.before_open THEN SetStartBefore(r, ch, r.before)
         ELSE LET child == LastChild(ch, r.before) IN
              [r EXCEPT !.after = IF child # NULL THEN child ELSE r.before,
                        !.after_close = child # NULL]
\* setStart(after, after_close, collapse), setEnd(before, before_open, collapse)
SetStart(r, ch, after, afterClose, collapse) ==
    LET r1 == [r EXCEPT !.after = after, !.after_close = afterClose] IN
    IF collapse THEN Collapse(r1, ch, TRUE) ELSE r1
SetEnd(r, ch, before, beforeOpen, collapse) ==
    LET r1 == [r EXCEPT !.before = before, !.before_open = beforeOpen] IN
    IF collapse THEN Collapse(r1, ch, FALSE) ELSE r1
SelectNode(r, ch, node) == SetEndAfter(SetStartBefore(r, ch, node), ch, node)
\* extend(other)
Extend(r, ch, other) ==
    LET ap == ComparePos(ch, r.after, other.after)
        r1 == IF ap = "same"
              THEN [r EXCEPT !.after_close = r.after_close /\ other.after_close]
              ELSE IF \/ ap = "preceding"
                      \/ ap = "contains" /\ ~other.after_close
                      \/ ap = "contained_by" /\ r.after_close
              THEN [r EXCEPT !.after = other.after, !.after_close = other.after_close]
              ELSE r
        bp == ComparePos(ch, r.before, other.before)
    IN IF ap = "disconnected" THEN RangeThrow(r, "Error: Start anchors are disconnected")
       ELSE IF bp = "disconnected" THEN RangeThrow(r1, "Error: End anchors are disconnected")
       ELSE IF bp = "same"
       THEN [r1 EXCEPT !.before_open = r1.before_open /\ other.before_open]
       ELSE IF \/ bp = "following"
               \/ bp = "contains" /\ ~other.before_open
               \/ bp = "contained_by" /\ r1.before_open
       THEN [r1 EXCEPT !.before = other.before, !.before_open = other.before_open]
       ELSE r1

\* -------------------------------------------------- MutationDiff.range
\* F is the full range fr: [set |-> FALSE] while fr is null
NullRange == [set |-> FALSE, r |-> EmptyRange]
\* union(): fr = sr.cloneRange() or fr.extend(sr)
Union(F, ch, sr) ==
    IF F.r.err # "none" THEN F
    ELSE IF sr.err # "none" THEN [F EXCEPT !.r = RangeThrow(@, sr.err)]
    ELSE IF ~F.set THEN [set |-> TRUE, r |-> sr]
    ELSE [F EXCEPT !.r = Extend(@, ch, sr)]
Include(ch, root, node) == root = NULL \/ ContainedBy(ch, root, node)
\* a fixedness test that takes the end of the parent for unknown
FixedSiblingNode(t, s) == IsNode(s) /\ ~Has(t, s)
FixedSibling(t, s) == s # UNDEF /\ ~IsProm(s) /\ (s = NULL \/ ~Has(t, s))
\* a range that leaves the dirty properties out
RangePropsNone(F, props, ch, root, n) == F
\* the loop over this.props.entries()
RECURSIVE RangeProps(_, _, _, _, _)
RangeProps(F, props, ch, root, n) ==
    IF n > NumNodes THEN F
    ELSE RangeProps(IF Dirty(props, n) /\ Include(ch, root, n)
                    THEN Union(F, ch, SelectNode(EmptyRange, ch, n)) ELSE F,
                    props, ch, root, n + 1)
\* one pass of the loop over this.tree.mutations()
RangeOp(F, props, t, ch, root, n) ==
    LET F1 == IF ParentOf(ch, n) # NULL /\ ~Dirty(props, n) /\ Include(ch, root, n)
              THEN Union(F, ch, SelectNode(EmptyRange, ch, n)) ELSE F
        op == t.fl[n].o
        prevFixed == FixedSibling(t, op.prev)
        nextFixed == FixedSibling(t, op.next)
        s1 == IF prevFixed
              THEN SetStart(EmptyRange, ch, IF op.prev # NULL THEN op.prev ELSE op.parent,
                            op.prev # NULL, ~nextFixed)
              ELSE EmptyRange
        s2 == IF nextFixed
              THEN SetEnd(s1, ch, IF op.next # NULL THEN op.next ELSE op.parent,
                          op.next # NULL, ~prevFixed)
              ELSE s1
    IN IF ~HasPos(op) \/ (~prevFixed /\ ~nextFixed) THEN F1
       ELSE IF root # NULL /\ ~Contains(ch, root, op.parent) THEN F1
       ELSE Union(F1, ch, s2)
RECURSIVE RangeOps(_, _, _, _, _, _)
RangeOps(F, props, t, ch, root, i) ==
    IF i > Len(t.ord) THEN F
    ELSE RangeOps(RangeOp(F, props, t, ch, root, t.ord[i]), props, t, ch, root, i + 1)
\* range(root)
Range(props, t, ch, root) == RangeOps(RangeProps(NullRange, props, ch, root, 0), props, t, ch, root, 1)

\* ------------------------------------------- the DOM and its observer
\* A MutationObserver observes Root with {subtree, childList, attributes,
\* attributeOldValue}.  A node removed from an observed parent carries a
\* transient registered observer until the next notification, so a mutation
\* is recorded when an inclusive ancestor of its target is Root or transient.
Observed(ch, tr, x) == \E a \in Nodes : Contains(ch, a, x) /\ (a = Root \/ a \in tr)
ChildList(parent, removed, added, prev, next) ==
    [type |-> "childList", target |-> parent, removed |-> removed, added |-> added,
     prev |-> prev, next |-> next, old |-> 0]
Attributes(node, oldValue) ==
    [type |-> "attributes", target |-> node, removed |-> <<>>, added |-> <<>>,
     prev |-> NULL, next |-> NULL, old |-> oldValue]
\* E is the environment [ch, tr, q, un]: childNodes, transient observers,
\* record queue, and un: a mutation went unrecorded
\* the record of a mutation of target p, queued when p is observed
Queue(E, ch, p, rec, gone) ==
    IF Observed(E.ch, E.tr, p)
    THEN [E EXCEPT !.ch = ch, !.q = Append(@, rec), !.tr = @ \cup gone]
    ELSE [E EXCEPT !.ch = ch, !.un = TRUE]
\* remove node n from its parent
DomRemove(E, n) ==
    LET p == ParentOf(E.ch, n) IN
    IF p = NULL THEN E
    ELSE Queue(E, Detach(E.ch, n), p,
               ChildList(p, <<n>>, <<>>, PrevSib(E.ch, n), NextSib(E.ch, n)), {n})
\* converting nodes into a node: each is removed from its parent in turn
RECURSIVE DomRemoveAll(_, _, _)
DomRemoveAll(E, ns, i) == IF i > Len(ns) THEN E ELSE DomRemoveAll(DomRemove(E, ns[i]), ns, i + 1)
\* insert ns into p before ref
DomInsertBefore(E, p, ref, ns) ==
    LET E1 == DomRemoveAll(E, ns, 1)
        prev == IF ref = NULL THEN LastChild(E1.ch, p) ELSE PrevSib(E1.ch, ref)
    IN Queue(E1, InsertBefore(E1.ch, p, ref, ns), p, ChildList(p, <<>>, ns, prev, ref), {})
\* p.replaceChildren(...ns)
DomReplaceChildren(E, p, ns) ==
    LET E1 == DomRemoveAll(E, ns, 1)
        removed == E1.ch[p]
    IN IF Len(removed) = 0 /\ Len(ns) = 0 THEN E1
       ELSE Queue(E1, [E1.ch EXCEPT ![p] = ns], p, ChildList(p, removed, ns, NULL, NULL),
                  SeqToSet(removed))
\* n.replaceWith(...ns), n not among ns
DomReplaceWith(E, n, ns) ==
    LET E1 == DomRemoveAll(E, ns, 1)
        p == ParentOf(E1.ch, n)
        prev == PrevSib(E1.ch, n)
        next == NextSib(E1.ch, n)
        at == IndexOf(E1.ch[p], n)
    IN Queue(E1, [E1.ch EXCEPT ![p] = SubSeq(@, 1, at - 1) \o ns \o SubSeq(@, at + 1, Len(@))],
             p, ChildList(p, <<n>>, ns, prev, next), {n})

\* --------------------------------------------------------------- state
VARIABLES
    children,    \* childNodes of every node
    attr,        \* the attribute value of every node (0: absent)
    transient,   \* nodes carrying a transient registered observer
    queue,       \* the observer's record queue
    delivering,  \* "idle", or the delivery whose loop over records is running
    props,       \* MutationDiff.props: node -> PropertyCache
    tree,        \* MutationDiff.tree
    orig,        \* childNodes when tracking started
    origAttr,    \* attribute values when tracking started
    untracked,   \* a mutation went unrecorded since tracking started
    steps,       \* DOM operations performed
    limit,       \* DOM operations the behaviour may perform
    err,         \* the exception the last tracker call ended with
    last         \* the last operation, with the storage size it found
vars == <<children, attr, transient, queue, delivering, props, tree, orig, origAttr,
          untracked, steps, limit, err, last>>

MaxOps == 2
MaxQueue == 1
\* nodes whose attribute is changed
AttrNodes == {1}
\* the trees tracking may start from: flat, nested, and with node NumNodes
\* outside the document
Flat == [n \in Nodes |-> IF n = Root THEN [i \in 1..NumNodes |-> i] ELSE <<>>]
Nested ==
    [n \in Nodes |-> IF n = Root THEN [i \in 1..(NumNodes - 1) |-> i]
                     ELSE IF n = 1 THEN <<NumNodes>> ELSE <<>>]
Orphan == [n \in Nodes |-> IF n = Root THEN [i \in 1..(NumNodes - 1) |-> i] ELSE <<>>]
InitTrees == {Flat, Nested, Orphan}
NoProps == [n \in Nodes |-> NoCache]
Did(op) == [op |-> op, size |-> 0]
StorageSize(p, t) == Cardinality({n \in Nodes : p[n].in}) + Len(t.ord)
\* failures of the model itself, not exceptions of the program
Faults == {"stale promise", "stale record", "endless walk"}

\* tracking starts on one of trees; ops DOM operations may follow
Start(trees, ops) ==
    /\ children \in trees
    /\ attr = [n \in Nodes |-> 0]
    /\ transient = {}
    /\ queue = <<>>
    /\ delivering = "idle"
    /\ props = NoProps
    /\ tree = TreeMutations
    /\ orig = children
    /\ origAttr = attr
    /\ untracked = FALSE
    /\ steps = 0
    /\ limit = ops
    /\ err = "none"
    /\ last = Did("init")
Init == Start(InitTrees, MaxOps)
\* one more operation on the nested tree
DeepOps == MaxOps + 1
InitNested == Start({Nested}, DeepOps)

\* tracking started on the tree Orphan and node NumNodes was then inserted
\* among the children of Root without a record of it reaching the tracker
UntrackedInserts ==
    {[Orphan EXCEPT ![Root] = InsertAt(@, i, <<NumNodes>>)] : i \in 1..NumNodes}
InitUntracked ==
    /\ children \in UntrackedInserts
    /\ attr = [n \in Nodes |-> 0]
    /\ transient = {}
    /\ queue = <<>>
    /\ delivering = "idle"
    /\ props = NoProps
    /\ tree = TreeMutations
    /\ orig = Orphan
    /\ origAttr = attr
    /\ untracked = TRUE
    /\ steps = 0
    /\ limit = MaxOps
    /\ err = "none"
    /\ last = Did("init")

\* Root has the child 2, which has the children 1 and 3
Deep == [n \in Nodes |-> IF n = Root THEN <<2>> ELSE IF n = 2 THEN <<1, 3>> ELSE <<>>]
\* Deep after 1.remove() and 3.remove()
Emptied == [n \in Nodes |-> IF n = Root THEN <<2>> ELSE <<>>]
UnknownOps == MaxOps + 2
InitEmptied ==
    /\ children = Emptied
    /\ attr = [n \in Nodes |-> 0]
    /\ transient = {}
    /\ queue = <<>>
    /\ delivering = "idle"
    /\ props = NoProps
    /\ tree \in {Mutation(Mutation(TreeMutations, 2, <<1>>, <<>>, NULL, 3),
                          2, <<3>>, <<>>, NULL, NULL),
                 Mutation(Mutation(TreeMutations, 2, <<3>>, <<>>, 1, NULL),
                          2, <<1>>, <<>>, NULL, NULL)}
    /\ orig = Deep
    /\ origAttr = attr
    /\ untracked = FALSE
    /\ steps = 0
    /\ limit = UnknownOps
    /\ err = "none"
    /\ last = Did("init")
\* tracking has recorded the two removals, or starts with a node outside the
\* document
InitUnknown == InitEmptied \/ Start({Orphan}, DeepOps)
Env == [ch |-> children, tr |-> transient, q |-> queue, un |-> untracked]
\* a DOM operation runs between deliveries, and leaves E
CanOperate == delivering = "idle" /\ Len(queue) < MaxQueue /\ steps < limit /\ err \notin Faults
Operate(E) ==
    /\ children' = E.ch
    /\ transient' = E.tr
    /\ queue' = E.q
    /\ untracked' = E.un
    /\ steps' = steps + 1
    /\ last' = Did("dom")
    /\ UNCHANGED <<limit, attr, delivering, props, tree, orig, origAttr, err>>

\* n.remove()
Remove(n) ==
    /\ CanOperate
    /\ ParentOf(children, n) # NULL
    /\ \E E \in {DomRemove(Env, n)} : Operate(E)
\* p.append, p.prepend, x.before, x.after: ns inserted into p before ref
Insert(p, ref, ns) ==
    /\ CanOperate
    /\ Len(ns) > 0
    /\ ~HierarchyError(children, p, ns)
    /\ ref = NULL \/ (ref \in SeqToSet(children[p]) /\ ref \notin SeqToSet(ns))
    /\ \E E \in {DomInsertBefore(Env, p, ref, ns)} : Operate(E)
\* p.replaceChildren(...ns)
ReplaceChildren(p, ns) ==
    /\ CanOperate
    /\ ~HierarchyError(children, p, ns)
    /\ Len(ns) > 0 \/ Len(children[p]) > 0
    /\ \E E \in {DomReplaceChildren(Env, p, ns)} : Operate(E)
\* n.replaceWith(...ns)
ReplaceWith(n, ns) ==
    /\ CanOperate
    /\ Len(ns) > 0
    /\ ParentOf(children, n) # NULL
    /\ n \notin SeqToSet(ns)
    /\ ~HierarchyError(children, ParentOf(children, n), ns)
    /\ \E E \in {DomReplaceWith(Env, n, ns)} : Operate(E)
\* n.setAttribute("class", v), n.removeAttribute("class")
SetAttribute(n, v) ==
    /\ CanOperate
    /\ v # 0 \/ attr[n] # 0
    /\ attr' = [attr EXCEPT ![n] = v]
    /\ IF Observed(children, transient, n)
       THEN queue' = Append(queue, Attributes(n, attr[n])) /\ untracked' = untracked
       ELSE queue' = queue /\ untracked' = TRUE
    /\ steps' = steps + 1
    /\ last' = Did("dom")
    /\ UNCHANGED <<limit, children, transient, delivering, props, tree, orig, origAttr, err>>

\* observer.takeRecords(): the loop of Tester.record starts
TakeRecords ==
    /\ delivering = "idle" /\ queue # <<>> /\ err \notin Faults
    /\ delivering' = "records"
    /\ last' = Did("takeRecords")
    /\ UNCHANGED <<limit, children, attr, transient, queue, props, tree, orig, origAttr, untracked,
                   steps, err>>
\* the observer is notified: the transient observers go and the callback
\* runs when there are records
Notify ==
    /\ delivering = "idle" /\ err \notin Faults
    /\ queue # <<>> \/ transient # {}
    /\ transient' = {}
    /\ delivering' = IF queue # <<>> THEN "records" ELSE "idle"
    /\ last' = Did("notify")
    /\ UNCHANGED <<limit, children, attr, queue, props, tree, orig, origAttr, untracked, steps, err>>
\* MutationDiff.record(r) for the next record of the delivery; an exception
\* ends the loop, the records after it are lost
Record ==
    /\ delivering = "records" /\ queue # <<>> /\ err \notin Faults
    /\ \E r \in {Head(queue)} :
         \E t \in {IF r.type = "childList"
                    THEN Mutation(tree, r.target, r.removed, r.added, r.prev, r.next)
                    ELSE tree} :
          /\ tree' = [t EXCEPT !.err = "none"]
          /\ err' = t.err
          /\ props' = IF r.type = "attributes"
                      THEN Attribute(props, r.target, attr[r.target], r.old)
                      ELSE props
          /\ queue' = IF Ok(t) THEN Tail(queue) ELSE <<>>
          /\ untracked' = (untracked \/ (~Ok(t) /\ Len(queue) > 1))
          /\ delivering' = IF Ok(t) /\ Len(queue) > 1 THEN "records" ELSE "idle"
    /\ last' = Did(IF Head(queue).type = "childList" THEN "mutation" ELSE "attribute")
    /\ UNCHANGED <<limit, children, attr, transient, orig, origAttr, steps>>
\* the tracker is called with every record delivered
Settled == delivering = "idle" /\ queue = <<>> /\ err \notin Faults
\* MutationDiff.revert(custom_revert), cb: a callback is given; tracking goes
\* on from the tree it leaves.  With a callback the revert of the first cache
\* of props ends with a ReferenceError, after its loop over native.
RevertCall(cb) ==
    /\ Settled
    /\ IF cb /\ \E n \in Nodes : props[n].in /\ PropRevertThrows(props[n])
       THEN /\ attr' = RevertFirst(props, attr)
            /\ err' = "ReferenceError"
            /\ UNCHANGED <<children, props, tree, orig, origAttr, untracked, transient>>
       ELSE /\ \E D \in {RevertTree(tree, children)} :
               /\ children' = D.ch
               /\ attr' = RevertAttr(props, attr)
               /\ props' = NoProps
               /\ tree' = IF D.err = "none" THEN TreeClear(tree) ELSE tree
               /\ err' = D.err
            /\ orig' = children'
            /\ origAttr' = attr'
            /\ untracked' = FALSE
            /\ transient' = {}
    /\ last' = [op |-> IF cb THEN "revert(custom_revert)"
                       ELSE IF RevertWarns(tree) THEN "revert(warn)" ELSE "revert",
                size |-> StorageSize(props, tree)]
    /\ UNCHANGED <<limit, queue, delivering, steps>>
Revert == RevertCall(FALSE)
RevertCustom == RevertCall(TRUE)
\* MutationDiff.synchronize()
Synchronize ==
    /\ Settled
    /\ \E t \in {MDSynchronize(props, tree, children)} :
       /\ tree' = [t EXCEPT !.err = "none"]
       /\ err' = t.err
    /\ last' = [op |-> "synchronize", size |-> StorageSize(props, tree)]
    /\ UNCHANGED <<limit, children, attr, transient, queue, delivering, props, orig, origAttr,
                   untracked, steps>>
\* Tester.start(): MutationDiff.clear() and a fresh observation of Root
\* a clear() that empties the tree and leaves props
ClearTreeOnly ==
    /\ Settled
    /\ props' = props
    /\ tree' = TreeClear(tree)
    /\ orig' = children
    /\ origAttr' = attr
    /\ untracked' = FALSE
    /\ transient' = {}
    /\ err' = "none"
    /\ last' = [op |-> "clear", size |-> StorageSize(props, tree)]
    /\ UNCHANGED <<limit, children, attr, queue, delivering, steps>>
Clear ==
    /\ Settled
    /\ props' = NoProps
    /\ tree' = TreeClear(tree)
    /\ orig' = children
    /\ origAttr' = attr
    /\ untracked' = FALSE
    /\ transient' = {}
    /\ err' = "none"
    /\ last' = [op |-> "clear", size |-> StorageSize(props, tree)]
    /\ UNCHANGED <<limit, children, attr, queue, delivering, steps>>

\* ----------------------------------- the property calls of MutationDiff
\* node.setAttribute / removeAttribute with no observer attached
SetValue(n, v) ==
    /\ Settled
    /\ attr[n] # v
    /\ attr' = [attr EXCEPT ![n] = v]
    /\ last' = Did("write")
    /\ UNCHANGED <<limit, children, transient, queue, delivering, props, tree, orig, origAttr,
                   untracked, steps, err>>
\* MutationDiff.attribute(n, "class", old); last.size: the dirty count of the
\* cache of n before the call
AttributeCall(n, old) ==
    /\ Settled
    /\ props' = Attribute(props, n, attr[n], old)
    /\ err' = "none"
    /\ last' = [op |-> "attribute()", size |-> props[n].ndirty]
    /\ UNCHANGED <<limit, children, attr, transient, queue, delivering, tree, orig, origAttr,
                   untracked, steps>>
\* MutationDiff.custom(n, key, v, old); last.size as for attribute()
CustomCall(n, v, old) ==
    /\ Settled
    /\ props' = Custom(props, n, v, old)
    /\ err' = "none"
    /\ last' = [op |-> "custom()", size |-> props[n].ndirty]
    /\ UNCHANGED <<limit, children, attr, transient, queue, delivering, tree, orig, origAttr,
                   untracked, steps>>
\* nodes whose properties are marked by direct calls
CacheNodes == {1, 2}
InitCache == Start({Flat}, 0)
NextCache ==
    \/ \E n \in CacheNodes, v \in Vals : SetValue(n, v)
    \/ \E n \in CacheNodes, old \in Vals : AttributeCall(n, old)
    \/ \E n \in CacheNodes, v \in Vals, old \in Vals : CustomCall(n, v, old)
    \/ Revert
    \/ RevertCustom
    \/ Synchronize
    \/ Clear
SpecCache == InitCache /\ [][NextCache]_vars

\* n, which has no parent, is inserted into Root before ref without a record
\* of it reaching the tracker
InsertUnrecorded(ref, n) ==
    /\ CanOperate
    /\ ParentOf(children, n) = NULL
    /\ ref = NULL \/ ref \in SeqToSet(children[Root])
    /\ children' = InsertBefore(children, Root, ref, <<n>>)
    /\ untracked' = TRUE
    /\ steps' = steps + 1
    /\ last' = Did("dom")
    /\ UNCHANGED <<limit, attr, transient, queue, delivering, props, tree, orig, origAttr, err>>
\* --------------------------------------------- the queries of MutationDiff
Queries == {"mutated()", "range()", "storage_size"}
\* mutated(root), range(root) and storage_size: nothing is assigned; range()
\* may throw, storage_size is kept in last.size
Query(q, root) ==
    /\ Settled
    /\ err' = IF q = "range()" THEN Range(props, tree, children, root).r.err ELSE "none"
    /\ last' = [op |-> q, size |-> IF q = "storage_size" THEN StorageSize(props, tree) ELSE 0]
    /\ UNCHANGED <<limit, children, attr, transient, queue, delivering, props, tree, orig,
                   origAttr, untracked, steps>>
\* diff(), after which the caller assigns v to a sibling of the children
\* log of n in the Map it got: the record changes when the log is not a copy
QueryDiff(n, mode, side, v) ==
    /\ Settled
    /\ tree' = IF Has(tree, n) /\ HasPos(GetPos(tree.fl[n], mode)) /\ ~DiffCopies(tree, n, mode)
               THEN [tree EXCEPT !.fl[n] = SetPos(@, mode, SetSlot(GetPos(@, mode), side, v))]
               ELSE tree
    /\ err' = "none"
    /\ last' = Did("diff()")
    /\ UNCHANGED <<limit, children, attr, transient, queue, delivering, props, orig,
                   origAttr, untracked, steps>>
\* a record(r) that throws when r.type is no case of the switch
RecordUnknownThrows ==
    /\ Settled
    /\ err' = "TypeError"
    /\ last' = Did("record(unknown)")
    /\ UNCHANGED <<limit, children, attr, transient, queue, delivering, props, tree, orig,
                   origAttr, untracked, steps>>
\* record(r) with an r.type that is no case of the switch: no case runs
RecordUnknown ==
    /\ Settled
    /\ err' = "none"
    /\ last' = Did("record(unknown)")
    /\ UNCHANGED <<limit, children, attr, transient, queue, delivering, props, tree, orig,
                   origAttr, untracked, steps>>

NodeLists == InjSeqs(Kids, MaxAdded)
Next ==
    \/ \E n \in Kids : Remove(n)
    \/ \E p \in Nodes, ref \in Kids \cup {NULL}, ns \in NodeLists : Insert(p, ref, ns)
    \/ \E p \in Nodes, ns \in NodeLists : ReplaceChildren(p, ns)
    \/ \E n \in Kids, ns \in NodeLists : ReplaceWith(n, ns)
    \/ \E n \in AttrNodes, v \in Vals : SetAttribute(n, v)
    \/ TakeRecords
    \/ Notify
    \/ Record
    \/ Revert
    \/ Synchronize
    \/ Clear
Spec == Init /\ [][Next]_vars
SpecNested == InitNested /\ [][Next]_vars
SpecUntracked == InitUntracked /\ [][Next]_vars
\* Tracking started on the tree Deep, and 1.remove() and 3.remove() were
\* recorded, in either order, or it starts on the tree Orphan; nodes are then
\* inserted among the children of Root without a record of it reaching the
\* tracker, between recorded removals, attribute changes, queries,
\* synchronize() and revert().
NextUnknown ==
    \/ \E n \in Kids : Remove(n)
    \/ \E ref \in Kids \cup {NULL}, n \in Kids : InsertUnrecorded(ref, n)
    \/ \E n \in AttrNodes, v \in Vals : SetAttribute(n, v)
    \/ Notify
    \/ Record
    \/ Synchronize
    \/ Revert
    \/ \E q \in Queries, root \in {NULL, Root} : Query(q, root)
    \/ \E n \in Kids, mode \in Modes, side \in Sides : QueryDiff(n, mode, side, NULL)
    \/ RecordUnknown
SpecUnknown == InitUnknown /\ [][NextUnknown]_vars
\* Tracking started on the tree Flat, 1.remove() was recorded and 1 was then
\* put back as first child of Root without a record of it reaching the
\* tracker; DeepOps operations on the nodes follow, with synchronize().
InitStale ==
    /\ children = Flat
    /\ attr = [n \in Nodes |-> 0]
    /\ transient = {}
    /\ queue = <<>>
    /\ delivering = "idle"
    /\ props = NoProps
    /\ tree = Mutation(TreeMutations, Root, <<1>>, <<>>, NULL, 2)
    /\ orig = Flat
    /\ origAttr = attr
    /\ untracked = TRUE
    /\ steps = 0
    /\ limit = DeepOps
    /\ err = "none"
    /\ last = Did("init")
NextStale ==
    \/ \E n \in Kids : Remove(n)
    \/ \E ref \in Kids \cup {NULL}, ns \in NodeLists : Insert(Root, ref, ns)
    \/ TakeRecords
    \/ Notify
    \/ Record
    \/ Synchronize
SpecStale == InitStale /\ [][NextStale]_vars
\* Tracking started on the tree Nested; 3.remove() was recorded, 3 was put
\* before 1 under Root without a record, 1.remove() was recorded, 1 was put
\* back between 3 and 2 without a record, and 2.remove() was recorded: the
\* next promise of 1, in the mutated next slot of 3, faces the prev promise
\* of 2, in the mutated prev slot of 1.
Facing ==
    Mutation(Mutation(Mutation(TreeMutations, 1, <<3>>, <<>>, NULL, NULL),
                      Root, <<1>>, <<>>, NULL, 3),
             Root, <<2>>, <<>>, 1, NULL)
InitFacing ==
    /\ children = [n \in Nodes |-> IF n = Root THEN <<3, 1>> ELSE <<>>]
    /\ attr = [n \in Nodes |-> 0]
    /\ transient = {}
    /\ queue = <<>>
    /\ delivering = "idle"
    /\ props = NoProps
    /\ tree = Facing
    /\ orig = Nested
    /\ origAttr = attr
    /\ untracked = TRUE
    /\ steps = 0
    /\ limit = MaxOps
    /\ err = "none"
    /\ last = Did("init")
SpecFacing == InitFacing /\ [][NextStale]_vars

\* ------------------------------------------- tests.js: CachedDOM, Tester
\* new CachedDOM(Root): the nodes under Root with their children and attribute
CachedDOM(ch, at) == [n \in Subtree(ch, Root) |-> [children |-> ch[n], attrs |-> at[n]]]
\* CachedDOM.diff(other, forward) of the original against the live tree: the
\* last two entries of the stack, el the node of at(-2).a and ai of at(-1)
\* (an index from 0, as in the source); [diff |-> FALSE] for false
NoDiff == [diff |-> FALSE, el |-> NULL, ai |-> 0]
RECURSIVE DiffRec(_, _, _, _)
DiffRec(x, ai, bi, forward) ==
    LET a == IF ai \in 0..(Len(orig[x]) - 1) THEN orig[x][ai + 1] ELSE NONE
        b == IF bi \in 0..(Len(children[x]) - 1) THEN children[x][bi + 1] ELSE NONE
        delta == IF forward THEN 1 ELSE 0 - 1
        here == [diff |-> TRUE, el |-> x, ai |-> ai]
    IN IF a = NONE /\ b = NONE THEN NoDiff
       ELSE IF a = NONE \/ b = NONE \/ a # b THEN here
       ELSE IF origAttr[a] # attr[a] THEN here
       ELSE LET sub == DiffRec(a, IF forward THEN 0 ELSE Len(orig[a]) - 1,
                               IF forward THEN 0 ELSE Len(children[a]) - 1, forward)
            IN IF sub.diff THEN sub ELSE DiffRec(x, ai + delta, bi + delta, forward)
CachedDiff(forward) ==
    DiffRec(Root, IF forward THEN 0 ELSE Len(orig[Root]) - 1,
            IF forward THEN 0 ELSE Len(children[Root]) - 1, forward)
\* check_revert: the range built from fdiff and bdiff
DiffRange ==
    LET f == CachedDiff(TRUE)
        b == CachedDiff(FALSE)
        r1 == IF f.ai = 0 THEN SetStart(EmptyRange, children, f.el, FALSE, FALSE)
              ELSE SetStart(EmptyRange, children, orig[f.el][f.ai], TRUE, FALSE)
    IN IF b.ai >= Len(orig[b.el]) - 1 THEN SetEnd(r1, children, b.el, FALSE, FALSE)
       ELSE SetEnd(r1, children, orig[b.el][b.ai + 2], TRUE, FALSE)
\* MutatedRange.isEqual
IsEqual(r, other) ==
    /\ r.after = other.after /\ r.after_close = other.after_close
    /\ r.before = other.before /\ r.before_open = other.before_open

\* ------------------------------------------------------------ properties
\* every notification of a stream without unrecorded mutation is ingested
Tracked == Settled /\ ~untracked
\* the queries of Tester.check_revert on the present state
IsMutated == Mutated(props, tree, children, Root)
TheRange == Range(props, tree, children, Root)

\* the tags of the tree under n in document order: <<n, "open">> ... <<n, "close">>
RECURSIVE Tags(_, _)
Tags(ch, n) ==
    LET RECURSIVE Kid(_)
        Kid(i) == IF i > Len(ch[n]) THEN <<>> ELSE Tags(ch, ch[n][i]) \o Kid(i + 1)
    IN <<(<<n, "open">>)>> \o Kid(1) \o <<(<<n, "close">>)>>
\* node n lies inside range r of the live tree
Covers(r, n) ==
    LET tags == Tags(children, Root)
        under == Subtree(children, Root)
    IN /\ r.after \in under /\ r.before \in under /\ n \in under
       /\ IndexOf(tags, <<r.after, IF r.after_close THEN "close" ELSE "open">>)
             < IndexOf(tags, <<n, "open">>)
       /\ IndexOf(tags, <<n, "close">>)
             < IndexOf(tags, <<r.before, IF r.before_open THEN "open" ELSE "close">>)

\* the longest common subsequence of two child lists
RECURSIVE Lcs(_, _)
Lcs(a, b) ==
    IF a = <<>> \/ b = <<>> THEN 0
    ELSE IF Head(a) = Head(b) THEN 1 + Lcs(Tail(a), Tail(b))
    ELSE LET x == Lcs(Tail(a), b)
             y == Lcs(a, Tail(b))
         IN IF x > y THEN x ELSE y
RECURSIVE SumLcs(_)
SumLcs(p) == IF p > NumNodes THEN 0 ELSE Lcs(orig[p], children[p]) + SumLcs(p + 1)
\* the least number of nodes whose repositioning turns the original tree into
\* the live one: the nodes with a parent on either side, less those that keep
\* their parent and their relative order
MinDelta ==
    Cardinality({n \in Kids : ParentOf(orig, n) # NULL \/ ParentOf(children, n) # NULL})
        - SumLcs(0)

\* no behaviour leaves what the model represents
NoFault == err \notin Faults
\* a stream without unrecorded mutation is ingested without an exception
NoException == (~untracked /\ last.op \in {"mutation", "attribute"}) => err = "none"

\* C1: when every mutation since tracking started was recorded and ingested,
\* revert() leaves the live tree (child order and attributes) equal to the
\* tree at tracking start.
C1_RevertRestores ==
    [][(last'.op = "revert" /\ ~untracked)
          => (err' = "none" /\ children' = orig /\ attr' = origAttr)]_vars
\* a revert of a nonempty delta has restored the original tree
C1_Witness ==
    /\ last.op = "revert" /\ last.size > 1 /\ err = "none" /\ steps = MaxOps
    /\ children = orig /\ attr = origAttr

\* C2: once all notifications of a tracked stream are ingested, mutated(root)
\* is true exactly when the tree under root differs from the tree at tracking
\* start, and when the tree is back at its original nothing is floating.
C2_MutatedIffDiffers ==
    Tracked =>
        /\ IsMutated <=> (CachedDOM(children, attr) # CachedDOM(orig, origAttr))
        /\ (children = orig => Floating(tree) = {})
\* nodes were moved and moved back: nothing is floating, mutated(root) is false
C2_Witness ==
    /\ Tracked /\ last.op = "mutation" /\ steps = MaxOps /\ attr = origAttr
    /\ children = orig /\ Floating(tree) = {} /\ ~IsMutated

\* the exceptions of #assert_valid_state
AssertErrors ==
    {"Error: indexed sibling doesn't match MutatedNode", "Error: promise is invalid",
     "Error: node position is reverted"}
\* the last tracker call was a mutation() that ran to its closing assertion
MutationEnded == last.op = "mutation" /\ err \in {"none"} \cup AssertErrors

\* C3: after every mutation(), no floating record has its original and
\* mutated position in the same parent with, on either side, the walk along
\* the mutated siblings past floating nodes that originated in another parent
\* ending at the fixed node or end-of-parent that is its original sibling.
C3_NoRevertedFloating == MutationEnded => ~RevertMissed(tree)

\* C4: at every method boundary each SiblingIndex map holds k -> r exactly
\* when r is floating, r[mode][side] is k and k is a node; no entry points at
\* a record that left the floating map.
C4_IndexConsistent ==
    \A mode \in Modes, side \in Sides, k \in Nodes :
        LET v == IdxMap(tree, mode, side)[k] IN
        /\ v # NONE =>
              /\ v \in Floating(tree)
              /\ HasPos(GetPos(tree.fl[v], mode))
              /\ Slot(GetPos(tree.fl[v], mode), side) = k
        /\ \A n \in Floating(tree) :
              (HasPos(GetPos(tree.fl[n], mode)) /\ Slot(GetPos(tree.fl[n], mode), side) = k)
                  => v = n

\* C5: in every state mutated(null) is true exactly when a record is floating
\* or the dirty flag of some cached property is set.
C5_MutatedNull ==
    Mutated(props, tree, children, NULL)
        <=> \/ Floating(tree) # {}
            \/ \E n \in Nodes : props[n].in /\ props[n].native.has /\ props[n].native.dirty
\* a property went dirty and clean again, nothing is floating
C5_Witness ==
    /\ \E n \in Nodes : props[n].in /\ props[n].native.has /\ ~props[n].native.dirty
    /\ Floating(tree) = {} /\ ~Mutated(props, tree, children, NULL)

\* C6: after every mutation() of a tracked stream the floating set is a
\* minimum delta: no smaller set of repositioned nodes turns the original
\* tree into the live one.
C6_MinimumDelta ==
    (Tracked /\ last.op = "mutation") => Cardinality(Floating(tree)) = MinDelta

\* C7: in every state reached by ingesting a tracked stream, range(root) is
\* null exactly when mutated(root) is false.
C7_RangeNullIffClean ==
    Tracked => (TheRange.r.err = "none" /\ (~TheRange.set <=> ~IsMutated))
\* a tracked stream left a mutated tree, and range(root) is a range
C7_Witness == Tracked /\ steps = MaxOps /\ IsMutated /\ TheRange.set /\ Floating(tree) # {}

\* C8: whenever range(root) returns a range, every floating node presently
\* under root and every dirty node under root lies inside it.
C8_RangeCovers ==
    (Tracked /\ TheRange.set) =>
        \A n \in Kids :
            ((n \in Floating(tree) \/ Dirty(props, n)) /\ ContainedBy(children, Root, n))
                => Covers(TheRange.r, n)
\* the range holds a dirty node and a floating node that are not siblings
C8_Witness ==
    /\ Tracked /\ TheRange.set
    /\ \E n \in Kids, k \in Kids :
          /\ Dirty(props, n) /\ k \in Floating(tree) /\ n # k
          /\ ContainedBy(children, Root, n) /\ ContainedBy(children, Root, k)
          /\ ParentOf(children, n) # ParentOf(children, k)

C10_SynchronizeKeeps ==
    [][(last'.op = "synchronize" /\ ~untracked)
          => /\ Diff(tree') = Diff(tree)
             /\ props' = props
             /\ RevertTree(tree', children') = RevertTree(tree, children)]_vars
\* synchronize() ran to its end over floating records
C10_Witness ==
    /\ last.op = "synchronize" /\ last.size > 1 /\ err = "none" /\ ~untracked
    /\ \E n \in Floating(tree) : HasPos(tree.fl[n].m)

\* C11 (as stated): after a tracked stream every node that was in the tree
\* under the root when tracking started and is no longer in it has a floating
\* record with mutated = null and original # null, and every node that was
\* not in it and now is has a record with original = null and mutated # null.
C11_AbsentIsNull ==
    Tracked =>
        \A n \in Kids :
            /\ (n \in Subtree(orig, Root) /\ n \notin Subtree(children, Root))
                  => (Has(tree, n) /\ ~HasPos(tree.fl[n].m) /\ HasPos(tree.fl[n].o))
            /\ (n \notin Subtree(orig, Root) /\ n \in Subtree(children, Root))
                  => (Has(tree, n) /\ ~HasPos(tree.fl[n].o) /\ HasPos(tree.fl[n].m))
\* C11 (amended): after a tracked stream every node that had a parent when
\* tracking started and has none now has a floating record with mutated = null
\* and original # null, and every node that had no parent and has one now has
\* a record with original = null and mutated # null.
C11_DetachedIsNull ==
    Tracked =>
        \A n \in Kids :
            /\ (ParentOf(orig, n) # NULL /\ ParentOf(children, n) = NULL)
                  => (Has(tree, n) /\ ~HasPos(tree.fl[n].m) /\ HasPos(tree.fl[n].o))
            /\ (ParentOf(orig, n) = NULL /\ ParentOf(children, n) # NULL)
                  => (Has(tree, n) /\ ~HasPos(tree.fl[n].o) /\ HasPos(tree.fl[n].m))
\* a tracked stream took one node out of the document and put another in
C11_Witness ==
    /\ Tracked /\ last.op = "mutation" /\ err = "none"
    /\ \E n \in Kids : ParentOf(orig, n) # NULL /\ ParentOf(children, n) = NULL
    /\ \E n \in Kids : ParentOf(orig, n) = NULL /\ ParentOf(children, n) # NULL

\* the scenario of C12: x was inserted before a, the last child of Root,
\* without a record, and has no record of its own
UntrackedBefore(x, a) ==
    /\ ParentOf(orig, x) = NULL /\ ParentOf(children, x) = Root /\ ~Has(tree, x)
    /\ ParentOf(orig, a) = Root
\* the notification (Root, removed [a], prev x, next null) is ingested next,
\* as the first mutation the tracker sees
RemovalIngested(x, a) ==
    /\ UntrackedBefore(x, a) /\ tree = TreeMutations
    /\ delivering = "records" /\ queue = <<ChildList(Root, <<a>>, <<>>, x, NULL)>>
\* it has been ingested and nothing else has happened to the tree
RemovalKnown(x, a) ==
    /\ UntrackedBefore(x, a) /\ steps = 1 /\ Settled /\ err = "none"
    /\ Floating(tree) = {a} /\ ~HasPos(tree.fl[a].m)
    /\ tree.fl[a].o.parent = Root /\ tree.fl[a].o.next = NULL
    /\ LastChild(children, Root) = x

\* C12 (as stated): the ingested removal leaves the original prev of a an
\* unresolved SiblingPromise.
C12_PromiseUntilSynchronize ==
    [][\A x, a \in Kids : RemovalIngested(x, a) => IsProm(tree'.fl[a].o.prev)]_vars
\* C12 (amended): the ingested removal sets the original prev of a to x at
\* once; synchronize() returns and leaves it x; revert(), before or after
\* synchronize(), returns and reinserts a immediately after x.
C12_PrevKnownAtOnce ==
    [][\A x, a \in Kids :
         /\ RemovalIngested(x, a) => (err' = "none" /\ tree'.fl[a].o.prev = x)
         /\ (RemovalKnown(x, a) /\ last'.op = "synchronize")
               => (err' = "none" /\ tree'.fl[a].o.prev = x /\ RemovalKnown(x, a)')
         /\ (RemovalKnown(x, a) /\ last'.op = "revert")
               => (err' = "none" /\ PrevSib(children', a) = x
                   /\ ParentOf(children', a) = Root)]_vars
\* the removal was ingested and synchronize() has returned: the original
\* prev of a is x
C12_Witness ==
    \E x, a \in Kids :
        RemovalKnown(x, a) /\ last.op = "synchronize" /\ tree.fl[a].o.prev = x

\* no entry of any cache of p is dirty
AllClean(p) ==
    \A n \in Nodes : ~(p[n].native.has /\ p[n].native.dirty)
                     /\ ~(p[n].custom.has /\ p[n].custom.dirty)
\* C13: after an attribute() or custom() call the entry's dirty flag says
\* whether the value read at that call differs from the stored original; a
\* call that reads the original leaves the entry clean and, with no other
\* dirty entry and no tree mutation, mutated() false; revert() leaves the
\* attribute of a clean entry as it is.
C13_DirtyIsDifference ==
    [][/\ \A n \in CacheNodes, old \in Vals :
             (last'.op = "attribute()" /\ AttributeCall(n, old)) =>
                 /\ props'[n].native.has
                 /\ props'[n].native.dirty = (attr[n] # props'[n].native.value)
                 /\ (AllClean(props') /\ tree' = TreeMutations)
                       => (~Mutated(props', tree', children', NULL)
                           /\ ~Mutated(props', tree', children', Root))
       /\ \A n \in CacheNodes, v \in Vals, old \in Vals :
             (last'.op = "custom()" /\ CustomCall(n, v, old)) =>
                 /\ props'[n].custom.has
                 /\ props'[n].custom.dirty = (v # props'[n].custom.value)
                 /\ (AllClean(props') /\ tree' = TreeMutations)
                       => (~Mutated(props', tree', children', NULL)
                           /\ ~Mutated(props', tree', children', Root))
       /\ last'.op \in {"revert", "revert(custom_revert)"} =>
             \A n \in Nodes :
                 (props[n].native.has /\ ~props[n].native.dirty) => attr'[n] = attr[n]]_vars
\* an attribute() call on the only cache, whose one entry was dirty, found
\* the attribute back at its original: the entry is clean, mutated() false
C13_Witness ==
    /\ last = [op |-> "attribute()", size |-> 1]
    /\ \E n \in CacheNodes :
          /\ props[n].native.has /\ ~props[n].native.dirty /\ ~props[n].custom.has
          /\ props[n].native.value = attr[n] /\ props[n].ndirty = 0 /\ props[n].clean = 1
          /\ \A m \in Nodes \ {n} : ~props[m].in
    /\ AllClean(props) /\ ~Mutated(props, tree, children, NULL)

\* C14: the first attribute() or custom() call for a key stores the old value
\* of that call as the original; every later call for the key leaves the
\* stored original as it is, whatever values it passes, and touches no other
\* entry.
C14_OriginalKept ==
    [][/\ \A n \in CacheNodes, old \in Vals :
             (last'.op = "attribute()" /\ AttributeCall(n, old)) =>
                 /\ props'[n].native.value
                       = (IF props[n].native.has THEN props[n].native.value ELSE old)
                 /\ props'[n].custom = props[n].custom
                 /\ \A m \in Nodes \ {n} : props'[m] = props[m]
       /\ \A n \in CacheNodes, v \in Vals, old \in Vals :
             (last'.op = "custom()" /\ CustomCall(n, v, old)) =>
                 /\ props'[n].custom.value
                       = (IF props[n].custom.has THEN props[n].custom.value ELSE old)
                 /\ props'[n].native = props[n].native
                 /\ \A m \in Nodes \ {n} : props'[m] = props[m]]_vars
\* a custom() call on the only cache, whose one entry is the custom one and
\* was dirty before the call: a later observation of the key
C14_Witness ==
    /\ last = [op |-> "custom()", size |-> 1]
    /\ \E n \in CacheNodes :
          /\ props[n].custom.has /\ ~props[n].native.has
          /\ \A m \in Nodes \ {n} : ~props[m].in

\* the keys a cache holds, and those of them that are dirty
CacheModes == {"native", "custom"}
Entries(pc) == {mode \in CacheModes : Entry(pc, mode).has}
DirtyEntries(pc) == {mode \in Entries(pc) : Entry(pc, mode).dirty}
\* C15: in every cache of props, after any attribute(), custom() and
\* synchronize() calls, clean + dirty is the number of entries and dirty is
\* the number of entries whose dirty flag is set.
C15_CountsAgree ==
    \A n \in Nodes :
        props[n].in =>
            /\ props[n].clean + props[n].ndirty = Cardinality(Entries(props[n]))
            /\ props[n].ndirty = Cardinality(DirtyEntries(props[n]))
\* synchronize() was called on a cache with a clean and a dirty entry
C15_Witness ==
    /\ last.op = "synchronize"
    /\ \E n \in CacheNodes :
          /\ props[n].in /\ props[n].clean = 1 /\ props[n].ndirty = 1
          /\ Cardinality(DirtyEntries(props[n])) = 1

\* an entry after a synchronize() that keeps the dirty entries only
KeptEntry(e) == IF e.has /\ e.dirty THEN e ELSE NoEntry
\* C16: synchronize() returns; a cache with a dirty entry keeps exactly its
\* dirty entries, with clean = 0 and dirty their number; a node whose cache
\* has no dirty entry is dropped from props, so storage_size counts the nodes
\* with a dirty entry and the floating records only.
C16_SynchronizeDropsClean ==
    [][last'.op = "synchronize" =>
          /\ err' # "TypeError"
          /\ \A n \in Nodes :
                props[n].in =>
                    IF props[n].ndirty = 0 THEN ~props'[n].in
                    ELSE /\ props'[n].in
                         /\ props'[n].native = KeptEntry(props[n].native)
                         /\ props'[n].custom = KeptEntry(props[n].custom)
                         /\ props'[n].clean = 0
                         /\ props'[n].ndirty = Cardinality(DirtyEntries(props[n]))
          /\ StorageSize(props', tree')
                = Cardinality({n \in Nodes : props[n].in /\ props[n].ndirty # 0})
                  + Len(tree'.ord)]_vars

\* C17: revert(custom_revert) called with a dirty custom entry in props
\* invokes the callback for exactly the dirty custom entries, returns, and
\* leaves props and the tree empty.
C17_CallbackForDirtyCustom ==
    [][(last'.op = "revert(custom_revert)"
        /\ \E n \in Nodes : props[n].custom.has /\ props[n].custom.dirty) =>
          /\ CallbackCalls(props)
                = {n \in Nodes : props[n].custom.has /\ props[n].custom.dirty}
          /\ err' = "none"
          /\ props' = NoProps
          /\ tree' = TreeMutations
          /\ StorageSize(props', tree') = 0]_vars

\* filters with the ATTRIBUTE bit and ORIGINAL and/or MUTATED
AttributeFilters ==
    {ALL, PROPERTY + ORIGINAL + MUTATED, ATTRIBUTE + ORIGINAL, ATTRIBUTE + MUTATED}
\* C18: for every such filter, diff(filter) has an entry for each node with a
\* dirty attribute entry, whose attribute map holds the key with its original
\* value (ORIGINAL) and its current value (MUTATED).
C18_DiffHasAttributes ==
    \A filter \in AttributeFilters, n \in Nodes :
        (props[n].in /\ props[n].native.has /\ props[n].native.dirty) =>
            /\ n \in DOMAIN DiffProperty(props, attr, filter)
            /\ DiffProperty(props, attr, filter)[n].attribute
                  = [has |-> TRUE,
                     original |-> IF BitAnd(filter, ORIGINAL) # 0
                                  THEN props[n].native.value ELSE UNDEF,
                     mutated |-> IF BitAnd(filter, MUTATED) # 0 THEN attr[n] ELSE UNDEF]

\* the tracker holds nothing: props, the floating Map and the four maps of
\* the sibling indexes are empty
HoldsNothing(p, t) ==
    /\ \A n \in Nodes : ~p[n].in
    /\ Floating(t) = {} /\ t.ord = <<>>
    /\ t.oprev = EmptyIdx /\ t.onext = EmptyIdx
    /\ t.mprev = EmptyIdx /\ t.mnext = EmptyIdx
\* C19: when revert() returns, the tracker is as clear() leaves it: it holds
\* nothing, storage_size is 0, mutated() is false and range() is null.
C19_RevertClears ==
    [][(last'.op = "revert" /\ err' = "none") =>
          /\ HoldsNothing(props', tree')
          /\ props' = NoProps /\ tree' = TreeClear(tree)
          /\ StorageSize(props', tree') = 0
          /\ ~Mutated(props', tree', children', NULL)
          /\ ~Mutated(props', tree', children', Root)
          /\ ~Range(props', tree', children', NULL).set
          /\ ~Range(props', tree', children', Root).set]_vars
\* revert() returned on a tracker whose storage_size was above 1
C19_Witness ==
    /\ last.op = "revert" /\ err = "none" /\ last.size > 1
    /\ HoldsNothing(props, tree)

\* C20: clear() leaves a tracker that holds nothing, with storage_size 0, and
\* a clear() after a clear() leaves props and the tree as they are.
C20_ClearDropsAll ==
    [][last'.op = "clear" =>
          /\ HoldsNothing(props', tree')
          /\ StorageSize(props', tree') = 0
          /\ TreeClear(tree') = tree'
          /\ (last.op = "clear" => (props' = props /\ tree' = tree))]_vars
\* clear() was called on a tracker whose storage_size was above 1
C20_Witness ==
    /\ last.op = "clear" /\ last.size > 1
    /\ HoldsNothing(props, tree)

PlacedGroup(ch, g) ==
    /\ \A i \in DOMAIN g.nodes : ParentOf(ch, g.nodes[i]) = g.parent
    /\ \A i \in 1..(Len(g.nodes) - 1) : NextSib(ch, g.nodes[i]) = g.nodes[i + 1]
    /\ (IsNode(g.next) /\ ParentOf(ch, g.next) = g.parent)
          => NextSib(ch, g.nodes[Len(g.nodes)]) = g.next
    /\ (~Known(g.next) /\ IsNode(g.prev) /\ ParentOf(ch, g.prev) = g.parent)
          => PrevSib(ch, g.nodes[1]) = g.prev
    /\ g.next = NULL => NextSib(ch, g.nodes[Len(g.nodes)]) = NULL
    /\ (~Known(g.next) /\ g.prev = NULL) => PrevSib(ch, g.nodes[1]) = NULL
\* C22: when revert() meets a move group with a parent whose prev and next are
\* both unknown, it warns and goes on: it raises nothing, it places every
\* other group that has a parent under that parent, its nodes in a row and in
\* order, next to the known original sibling that is still there, and it
\* leaves the tracker cleared.
C22_RevertSkipsUnknown ==
    [][last'.op = "revert(warn)" =>
          LET groups == DiffGroupedChildren(tree, "original") IN
          /\ err' = "none"
          /\ tree' = TreeMutations
          /\ props' = NoProps
          /\ \A i \in DOMAIN groups : (i \notin Unplaced(groups) /\ groups[i].parent # NULL)
                => PlacedGroup(children', groups[i])]_vars
\* revert() warned about a group and placed another under node 2
C22_Witness ==
    /\ last.op = "revert(warn)"
    /\ err = "none"
    /\ children[2] # <<>>
\* C23: for a group with a parent whose prev and next are both unknown,
\* revert() moves nothing: every node of the group has after the call the
\* parent it had before it.
C23_UnknownGroupUnmoved ==
    [][last'.op = "revert(warn)" =>
          LET groups == DiffGroupedChildren(tree, "original") IN
          \A i \in Unplaced(groups) : \A k \in DOMAIN groups[i].nodes :
             ParentOf(children', groups[i].nodes[k]) = ParentOf(children, groups[i].nodes[k])]_vars
\* the places range() has to bound, and the errors of extend()
RangePlaces ==
    {n \in Nodes : Dirty(props, n) \/ (Has(tree, n) /\ ParentOf(children, n) # NULL)}
    \cup {p \in Nodes : \E n \in Floating(tree) :
             /\ HasPos(tree.fl[n].o)
             /\ tree.fl[n].o.parent = p
             /\ FixedSibling(tree, tree.fl[n].o.prev) \/ FixedSibling(tree, tree.fl[n].o.next)}
DisconnectedErrors ==
    {"Error: Start anchors are disconnected", "Error: End anchors are disconnected"}
\* C24: range() without a root fails with one of the two errors of
\* extend(), "anchors are disconnected", exactly when the places it has to
\* bound lie in more than one tree: the dirty nodes, the floating nodes that
\* have a parent, and the original parents of the records with a fixed
\* original sibling.  A record without original adds no original place and a
\* node without parent no current place.
C24_DisconnectedRange ==
    Settled => (Cardinality({TopOf(children, n) : n \in RangePlaces}) > 1
                  <=> Range(props, tree, children, NULL).r.err \in DisconnectedErrors)
\* C25 as stated: record(r) with a type that is none of attributes,
\* characterData and childList is rejected with an error, and the tracker
\* state is unchanged.
C25_UnknownRejected ==
    [][last'.op = "record(unknown)" => (err' # "none" /\ props' = props /\ tree' = tree)]_vars
\* C25, amended: record(r) with a type that is none of attributes,
\* characterData and childList returns without an error, and the tracker
\* state is unchanged.
C25_UnknownIgnored ==
    [][last'.op = "record(unknown)" => (err' = "none" /\ props' = props /\ tree' = tree)]_vars
\* record(r) with an unknown type was called on a tracker that holds a dirty
\* attribute and a floating record
C25_Witness ==
    /\ last.op = "record(unknown)"
    /\ err = "none"
    /\ Floating(tree) # {}
    /\ \E n \in Nodes : Dirty(props, n)
\* the original position of the record of n is its place at tracking start,
\* and a step keeps the known original siblings of a record that stays
\* floating
OriginalTrue(n) ==
    LET o == tree.fl[n].o IN
    HasPos(o) => /\ o.parent = ParentOf(orig, n)
                 /\ Known(o.prev) => o.prev = PrevSib(orig, n)
                 /\ Known(o.next) => o.next = NextSib(orig, n)
OriginalKept(n) ==
    (Has(tree, n) /\ Has(tree', n) /\ HasPos(tree.fl[n].o)) =>
        /\ HasPos(tree'.fl[n].o)
        /\ Known(tree.fl[n].o.prev) => tree'.fl[n].o.prev = tree.fl[n].o.prev
        /\ Known(tree.fl[n].o.next) => tree'.fl[n].o.next = tree.fl[n].o.next
\* C26: in a tracked stream, after each mutation() every floating record with
\* an original position has for original.parent the parent the node had when
\* tracking started, and each of original.prev and original.next that is a
\* node or null is the sibling the node had then; a known original sibling
\* does not change while the record stays floating.
C26_OriginalIsStart ==
    /\ [](Tracked => \A n \in Floating(tree) : OriginalTrue(n))
    /\ [][(~untracked /\ ~untracked') => \A n \in Kids : OriginalKept(n)]_vars
\* a node is floating with both original siblings known, and its original
\* next sibling has moved away from it
C26_Witness ==
    /\ Tracked
    /\ last.op = "mutation"
    /\ \E n \in Floating(tree) :
          LET o == tree.fl[n].o IN
          /\ HasPos(o) /\ Known(o.prev) /\ IsNode(o.next)
          /\ Has(tree, o.next)
          /\ ParentOf(children, o.next) # NULL
          /\ ParentOf(children, n) # NULL
          /\ NextSib(children, n) # o.next
\* the children p had at tracking start that have no record
Unmoved(p) == SelectSeq(orig[p], LAMBDA n : ~Has(tree, n))
\* C27: in a tracked stream, after every mutation() each node that had a
\* parent when tracking started and has no floating record is a child of that
\* parent, and under every parent the children it had then that have no
\* floating record stand in the order they had then.
C27_FixedInPlace ==
    Tracked =>
        /\ \A n \in Kids : (ParentOf(orig, n) # NULL /\ ~Has(tree, n))
              => ParentOf(children, n) = ParentOf(orig, n)
        /\ \A p \in Nodes :
              Unmoved(p) = SelectSeq(children[p], LAMBDA n : n \in SeqToSet(Unmoved(p)))
\* after the second operation a node floats among the children of its
\* original parent, beside two children of that parent without a record
C27_Witness ==
    /\ Tracked
    /\ last.op = "mutation"
    /\ \E p \in Nodes : /\ Len(Unmoved(p)) >= 2
                        /\ \E n \in SeqToSet(children[p]) : Has(tree, n) /\ ParentOf(orig, n) = p
    /\ steps >= 2
\* the mutated position of the record of n, where it has one, is the place of
\* n in the live tree
MutatedIsLive(n) ==
    LET m == tree.fl[n].m IN
    HasPos(m) => /\ m.parent = ParentOf(children, n)
                 /\ Known(m.prev) => m.prev = PrevSib(children, n)
                 /\ Known(m.next) => m.next = NextSib(children, n)
\* C28 as stated: once the notifications of a tracked stream are ingested,
\* each floating record has mutated = null iff its node is outside the tree
\* under the root, and otherwise mutated is the place of the node in the
\* live tree.
C28_MutatedUnderRoot ==
    Tracked => \A n \in Floating(tree) :
        /\ ~HasPos(tree.fl[n].m) <=> n \notin Subtree(children, Root)
        /\ MutatedIsLive(n)
\* C28, amended: once the notifications of a tracked stream are ingested,
\* each floating record has mutated = null iff its node has no parent, and
\* otherwise mutated is the place of the node in the live tree, be it under
\* the root or not.
C28_MutatedIsPlace ==
    Tracked => \A n \in Floating(tree) :
        /\ ~HasPos(tree.fl[n].m) <=> ParentOf(children, n) = NULL
        /\ MutatedIsLive(n)
\* after a mutation() one record has no mutated position, and another has one
\* with a node for a sibling, under a parent outside the tree of the root
C28_Witness ==
    /\ Tracked
    /\ last.op = "mutation"
    /\ \E n \in Floating(tree) : ~HasPos(tree.fl[n].m)
    /\ \E n \in Floating(tree) :
          /\ HasPos(tree.fl[n].m)
          /\ n \notin Subtree(children, Root)
          /\ IsNode(tree.fl[n].m.prev) \/ IsNode(tree.fl[n].m.next)
\* C29: after every mutation() and synchronize(), every record of the
\* floating map has an original or a mutated position.
C29_OneSide == \A n \in Floating(tree) : HasPos(tree.fl[n].o) \/ HasPos(tree.fl[n].m)
\* synchronize() has run on a tracker that holds a record with only a mutated
\* and a record with only an original position
C29_Witness ==
    /\ last.op = "synchronize"
    /\ err = "none"
    /\ \E n \in Floating(tree) : ~HasPos(tree.fl[n].o) /\ HasPos(tree.fl[n].m)
    /\ \E n \in Floating(tree) : HasPos(tree.fl[n].o) /\ ~HasPos(tree.fl[n].m)
\* the promise pv is in the slots of its pointer and of its origin, and
\* nowhere else
PromiseAttached(pv) ==
    /\ SlotsHolding(tree, "mutated", pv) = {<<tree.ptr[pv], PromDir(pv)>>}
    /\ SlotsHolding(tree, "original", pv) = {<<PromOrigin(pv), PromDir(pv)>>}
    /\ Has(tree, PromOrigin(pv))
\* C30: after every mutation() and synchronize(), every SiblingPromise found
\* in a slot of a record is in one mutated slot, the slot of its direction in
\* the record it points to, and in one original slot, the slot of its
\* direction in the record of its origin, which is floating.
C30_PromiseSlots == \A pv \in SlotPromises(tree) : PromiseAttached(pv)

\* the floating records that hold v in the side slot of their mode position
Holders(t, mode, side, v) ==
    {n \in Floating(t) : HasPos(GetPos(t.fl[n], mode)) /\ Slot(GetPos(t.fl[n], mode), side) = v}
\* C40: in every state no two floating records hold the same node in the
\* same slot, the prev or the next of the original or of the mutated
\* position, so that no entry of a SiblingIndex has two owners.
C40_OneHolder ==
    \A mode \in Modes, side \in Sides, v \in Nodes :
        Cardinality(Holders(tree, mode, side, v)) <= 1

\* the walk from record n along the dir slots of the mode positions, through
\* floating records only, never comes back to a record of seen
RECURSIVE NoRevisit(_, _, _, _, _)
NoRevisit(t, mode, dir, n, seen) ==
    LET pos == GetPos(t.fl[n], mode)
        s == Slot(pos, dir) IN
    IF ~HasPos(pos) \/ ~IsNode(s) \/ ~Has(t, s) THEN TRUE
    ELSE IF s \in seen THEN FALSE
    ELSE NoRevisit(t, mode, dir, s, seen \cup {s})
\* C38: in every state neither sibling graph has a cycle: following the prev
\* or the next links of the original or of the mutated positions from any
\* floating record, through floating records, never revisits a record.
C38_NoCycle ==
    \A mode \in Modes, dir \in Sides, n \in Floating(tree) :
        NoRevisit(tree, mode, dir, n, {n})

\* the nodes of the groups from the i-th on, in order
RECURSIVE GroupedNodes(_, _)
GroupedNodes(groups, i) ==
    IF i > Len(groups) THEN <<>> ELSE groups[i].nodes \o GroupedNodes(groups, i + 1)
\* C39: in every state the groups of diff_grouped_children(ORIGINAL, true),
\* the last group of nodes without an original position included, hold every
\* floating node once: none twice, in one group or in two, and none omitted.
C39_GroupedOnce ==
    LET nodes == GroupedNodes(DiffGroupedChildren(tree, "original"), 1) IN
    /\ Len(nodes) = Cardinality(Floating(tree))
    /\ SeqToSet(nodes) = Floating(tree)
\* after a mutation() the groups are a group of two linked nodes, started at
\* the later of the two in the floating map, and another group
C39_Witness ==
    LET groups == DiffGroupedChildren(tree, "original") IN
    /\ last.op = "mutation"
    /\ err = "none"
    /\ Len(groups) >= 2
    /\ \E i \in DOMAIN groups :
          /\ Len(groups[i].nodes) = 2
          /\ groups[i].parent # NULL
          /\ IndexOf(tree.ord, groups[i].nodes[1]) < IndexOf(tree.ord, groups[i].nodes[2])

\* the next record of the delivery reports the removal of n, whose record
\* has no original position: n was reported added before
AddedThenRemoved(n) ==
    /\ delivering = "records" /\ queue # <<>>
    /\ Head(queue).type = "childList"
    /\ n \in SeqToSet(Head(queue).removed)
    /\ tree.fl[n].in /\ ~HasPos(tree.fl[n].o)
\* no entry of a sibling index of t maps to the record of n
Unindexed(t, n) ==
    \A mode \in Modes, side \in Sides, k \in Nodes : IdxMap(t, mode, side)[k] # n
UnknownMutated(t) ==
    \E n \in Floating(t), side \in Sides :
        /\ HasPos(t.fl[n].m)
        /\ Slot(t.fl[n].m, side) = UNDEF \/ IsProm(Slot(t.fl[n].m, side))
\* no mutated slot of t is undefined or a promise, no original slot a promise
AllResolved(t) ==
    \A n \in Floating(t), side \in Sides :
        /\ HasPos(t.fl[n].m) =>
              Slot(t.fl[n].m, side) # UNDEF /\ ~IsProm(Slot(t.fl[n].m, side))
        /\ HasPos(t.fl[n].o) => ~IsProm(Slot(t.fl[n].o, side))
\* C33: from a state where a floating record has an unknown mutated sibling,
\* undefined or a SiblingPromise, synchronize() returns normally and leaves
\* no undefined and no promise in a mutated slot and no promise in an
\* original slot.  Stated for a tracker without property caches, whose
\* synchronize() is the one of the tree.
C33_SynchronizeResolves ==
    [][(last'.op = "synchronize" /\ UnknownMutated(tree) /\ \A n \in Nodes : ~props[n].in)
          => (err' = "none" /\ AllResolved(tree'))]_vars

\* C31: no walk of SiblingPromise.resume() reads a mutated slot that holds a
\* SiblingPromise: every slot a walk visits holds a node, null or undefined,
\* so that no promise is resolved to a promise object.
C31_NoPromiseMet == ~tree.met

\* the next record of the delivery is a childList record
ChildListNext == delivering = "records" /\ queue # <<>> /\ Head(queue).type = "childList"
\* the sibling a window endpoint of the record r gets on side: the nearest
\* added node, or the other endpoint
EndpointSibling(r, side) ==
    IF side = "next" THEN (IF Len(r.added) > 0 THEN r.added[1] ELSE r.next)
    ELSE (IF Len(r.added) > 0 THEN r.added[Len(r.added)] ELSE r.prev)
\* in t the record of the endpoint e has sibling s on side, and the mutated
\* sibling index maps s to it
EndpointLinked(t, e, s, side) ==
    /\ HasPos(t.fl[e].m)
    /\ Slot(t.fl[e].m, side) = s
    /\ IsNode(s) => IdxGet(t, "mutated", side, s) = e
\* C37 as stated: within a mutation() the mutated slots of the floating
\* window endpoints prev and next are updated before any node of removed or
\* of added is processed: the call leaves what that order computes.
C37_EndpointsFirst ==
    [][(last'.op = "mutation" /\ ChildListNext)
          => \E r \in {Head(queue)} :
                tree' = [MutationEndpointsFirst(tree, r.target, r.removed, r.added,
                                                r.prev, r.next) EXCEPT !.err = "none"]]_vars
\* C37, amended: within a mutation() the mutated slots of the floating
\* window endpoints are updated after the nodes of removed are processed and
\* before any node of added is, so that in a tracked stream an endpoint record
\* still floating after the call has the first added node, or next, as its
\* mutated next (the last added node, or prev, as its mutated prev) and the
\* mutated sibling index maps that node to the endpoint record.
C37_EndpointsAfterRemoved ==
    [][(last'.op = "mutation" /\ ChildListNext /\ ~untracked)
          => \E r \in {Head(queue)} :
                /\ (Has(tree, r.prev) /\ Has(tree', r.prev))
                      => EndpointLinked(tree', r.prev, EndpointSibling(r, "next"), "next")
                /\ (Has(tree, r.next) /\ Has(tree', r.next))
                      => EndpointLinked(tree', r.next, EndpointSibling(r, "prev"), "prev")]_vars
\* the next record of a tracked delivery removes a floating node that has a
\* mutated position, between endpoints of which one is floating
C37_Witness ==
    /\ ChildListNext
    /\ ~untracked
    /\ Len(Head(queue).removed) > 0
    /\ Has(tree, Head(queue).removed[1])
    /\ HasPos(tree.fl[Head(queue).removed[1]].m)
    /\ Has(tree, Head(queue).prev) \/ Has(tree, Head(queue).next)

\* the nodes of the window of the record r, in order: prev, removed, next
Window(r) == <<r.prev>> \o r.removed \o <<r.next>>
\* in t the next promise p and the prev promise q face each other in the
\* window of r: p is the mutated next of a record of the window and q the
\* mutated prev of the record that follows it
Meet(t, r, p, q) ==
    \E i \in 1..(Len(Window(r)) - 1) :
        LET a == Window(r)[i]
            b == Window(r)[i + 1]
        IN /\ Has(t, a) /\ HasPos(t.fl[a].m) /\ t.fl[a].m.next = p
           /\ Has(t, b) /\ HasPos(t.fl[b].m) /\ t.fl[b].m.prev = q
           /\ IsProm(p) /\ PromDir(p) = "next" /\ PromiseLive(t, p)
           /\ IsProm(q) /\ PromDir(q) = "prev" /\ PromiseLive(t, q)
\* in t the origins of p and q, where still floating, are each other's
\* original sibling, and the original sibling index says so
JointlyResolved(t, p, q) ==
    LET po == PromOrigin(p)
        qo == PromOrigin(q)
    IN /\ Has(t, po) => /\ t.fl[po].o.next = qo
                        /\ IdxGet(t, "original", "next", qo) = po
       /\ Has(t, qo) => /\ t.fl[qo].o.prev = po
                        /\ IdxGet(t, "original", "prev", po) = qo
\* in the child lists the node whose mutated next is the next promise p is
\* directly followed by the node whose mutated prev is the prev promise q:
\* the walk of synchronize() from p meets q at its first step
MeetInPlace(t, p, q) ==
    \E par \in Nodes : \E i \in 1..(Len(children[par]) - 1) :
        LET a == children[par][i]
            b == children[par][i + 1]
        IN /\ Has(t, a) /\ HasPos(t.fl[a].m) /\ t.fl[a].m.next = p
           /\ Has(t, b) /\ HasPos(t.fl[b].m) /\ t.fl[b].m.prev = q
           /\ IsProm(p) /\ PromDir(p) = "next" /\ PromiseLive(t, p)
           /\ IsProm(q) /\ PromDir(q) = "prev" /\ PromiseLive(t, q)
\* a step of mutation() resolves jointly the promises that meet in its window
JointInMutation ==
    (last'.op = "mutation" /\ ChildListNext)
        => \A p \in PromIds, q \in PromIds :
              Meet(tree, Head(queue), p, q) => JointlyResolved(tree', p, q)
\* a step of synchronize() resolves jointly the promises that meet in place
JointInSynchronize ==
    (last'.op = "synchronize")
        => \A p \in PromIds, q \in PromIds :
              MeetInPlace(tree, p, q) => JointlyResolved(tree', p, q)
\* C32: when a next promise P and a prev promise Q meet in the window that a
\* mutation() reveals, or in synchronize(), both are resolved together: the
\* origin of P gets the origin of Q as original next, the origin of Q gets the
\* origin of P as original prev, and both are indexed in the original
\* SiblingIndex.
C32_JointResolve == [][JointInMutation /\ JointInSynchronize]_vars
\* the part of C32 that is about mutation()
JointResolveInMutation == [][JointInMutation]_vars

\* the neighbour of n on side in the child lists ch, past the nodes that float
\* in t with no original position under parent: NULL at the end of the list
RECURSIVE Neighbour(_, _, _, _, _)
Neighbour(ch, t, parent, n, side) ==
    LET s == IF side = "prev" THEN PrevSib(ch, n) ELSE NextSib(ch, n)
    IN IF s = NULL THEN NULL
       ELSE IF Has(t, s) /\ t.fl[s].o.parent # parent
       THEN Neighbour(ch, t, parent, s, side)
       ELSE s
\* the step drops the record of n, which had an original position and is in
\* its original parent: n becomes fixed
BecomesFixed(n) ==
    /\ Has(tree, n) /\ HasPos(tree.fl[n].o) /\ ~Has(tree', n)
    /\ ParentOf(children, n) = tree.fl[n].o.parent
\* after the step the neighbour of n on side is a fixed node, or the end of
\* the list, and it is the original sibling of n on that side
SideMatches(n, side) ==
    LET nb == Neighbour(children, tree', tree.fl[n].o.parent, n, side)
    IN ~Has(tree', nb) /\ Slot(tree.fl[n].o, side) = nb
\* after the step the neighbour of n on side is a fixed node, or the end of
\* the list, and the original sibling of n on that side is known and is
\* another one
SideDiffers(n, side) ==
    LET nb == Neighbour(children, tree', tree.fl[n].o.parent, n, side)
    IN ~Has(tree', nb) /\ Known(Slot(tree.fl[n].o, side)) /\ Slot(tree.fl[n].o, side) # nb
\* the step is the mutation() of the last record of a delivery of a tracked
\* stream: the child lists are the tree this mutation() is told about
LastOfDelivery ==
    ChildListNext /\ Len(queue) = 1 /\ ~untracked /\ last'.op = "mutation" /\ err' = "none"
ForeignBeside(t, parent, c, side) ==
    LET s == IF side = "prev" THEN PrevSib(children, c) ELSE NextSib(children, c)
    IN /\ Has(t, s) /\ t.fl[s].o.parent # parent
       /\ HasPos(t.fl[s].m) /\ Known(t.fl[s].m.prev) /\ Known(t.fl[s].m.next)
\* after the step c floats in its original parent and on side its neighbour
\* past the floating nodes of other parents is a fixed node, or the end of
\* the list, and is its original sibling
LeftFloating(c, side) ==
    /\ Has(tree', c) /\ HasPos(tree'.fl[c].o)
    /\ ParentOf(children, c) = tree'.fl[c].o.parent
    /\ LET nb == Neighbour(children, tree', tree'.fl[c].o.parent, c, side)
       IN ~Has(tree', nb) /\ Slot(tree'.fl[c].o, side) = nb
\* C35: floating nodes that originated in another parent are transparent to
\* the revert check: a candidate c in its original parent with such nodes
\* beside it becomes fixed only if on one side its neighbour past them is its
\* original sibling and fixed, and it does not stay floating if that is so.
C35_Transparent ==
    [][(ChildListNext /\ Len(queue) = 1 /\ ~untracked /\ last'.op = "mutation")
          => \A c \in Kids : \A s \in Sides :
          /\ (BecomesFixed(c) /\ ForeignBeside(tree', tree.fl[c].o.parent, c, s))
                => SideMatches(c, "prev") \/ SideMatches(c, "next")
          /\ (Has(tree', c) /\ ForeignBeside(tree', tree'.fl[c].o.parent, c, s))
                => ~LeftFloating(c, "prev") /\ ~LeftFloating(c, "next")]_vars
\* the last record of a delivery puts a floating node back in its original
\* parent; on one side a floating node that originated in another parent
\* stands between it and its original sibling, a fixed node or the end of the
\* list, and on the other side its neighbour is not its original sibling
C35_Witness ==
    /\ ChildListNext /\ Len(queue) = 1 /\ ~untracked
    /\ \E c \in Kids : \E s \in Sides :
          /\ Has(tree, c) /\ HasPos(tree.fl[c].o)
          /\ c \in SeqToSet(Head(queue).added)
          /\ Head(queue).target = tree.fl[c].o.parent
          /\ ParentOf(children, c) = tree.fl[c].o.parent
          /\ ForeignBeside(tree, tree.fl[c].o.parent, c, s)
          /\ LET nb == Neighbour(children, tree, tree.fl[c].o.parent, c, s)
             IN ~Has(tree, nb) /\ Slot(tree.fl[c].o, s) = nb
          /\ LET ob == Neighbour(children, tree, tree.fl[c].o.parent, c, Opp(s))
             IN Slot(tree.fl[c].o, Opp(s)) # ob
====
